---- MODULE Spec2Model ----
(***************************************************************************)
(* Transactional editing core: Edit, Buffer::apply, History (undo/redo)    *)
(* of the `core` crate, and the Context / Selection / History / operation  *)
(* layer of the `gauchito-core` crate.                                     *)
(* The text object resolver of gauchito-core (textobjects/registry.rs,     *)
(* finders/basic.rs, finders/treesitter.rs) resolves ranges on the same    *)
(* buffer.  SpecRecord drives the plain History::record of gauchito-core   *)
(* and of ew-core; SpecScan runs the loops of the scans one iteration at a *)
(* time (prior then counts the iterations, ret is the loop state).         *)
(*                                                                         *)
(* A text is a sequence of characters; a character is a one-element        *)
(* string.  Offsets into the rope are character offsets, String::len() is  *)
(* a byte count (ByteLen).                                                 *)
(***************************************************************************)
EXTENDS Integers, Sequences, FiniteSets, TLC

VARIABLES
    content,     \* Buffer.content (the rope), a sequence of characters
    modified,    \* Buffer.modified
    undo_stack,  \* History.undo_stack
    redo_stack,  \* History.redo_stack
    selection,   \* Context.selection: [anchor, head]
    pc,          \* position of the host driving Buffer and History
    txn,         \* the edit list the host passed to the last Buffer::apply
    ret,         \* the value returned by the last call
    pre,         \* the buffer the host saved before applying the transaction
                 \* it undoes next, if any
    prior,       \* stack sizes before the last History call
    last,        \* the last call
    panicked,    \* a rope operation was called out of bounds (Rust panic)
    text_objects \* Buffer.text_objects, the registry of text object finders:
                 \* [finders, capability_cache]

vars == <<content, modified, undo_stack, redo_stack, selection, pc, txn, ret,
          pre, prior, last, panicked, text_objects>>

----------------------------------------------------------------------------
(* Bounds of the model *)

MaxLen == 2      \* longest buffer a host of core submits a transaction to
MaxEdits == 2    \* most edits of a transaction, those the undo stack of
                 \* core's History already holds included
MaxCtxLen == 2   \* longest buffer an editing operation may leave in a Context
MaxUndo == 2     \* most transactions on a Context's undo stack when an
                 \* editing operation executes
MaxOpLen == 2    \* longest buffer of a context an operation is executed on
MaxCmdLen == 1   \* longest buffer of a context a command is typed at

\* "a" is a one-byte character, "é" a two-byte one (UTF-8).
Alphabet == {"a", "é"}

ByteLen(ch) == IF ch \in {"é", "É"} THEN 2 ELSE 1

RECURSIVE len(_)
\* String::len(): the length in bytes
len(text) == IF text = <<>> THEN 0 ELSE ByteLen(Head(text)) + len(Tail(text))

RECURSIVE TextsOver(_, _)
\* the texts of at most n characters of the alphabet
TextsOver(alphabet, n) ==
    IF n = 0 THEN {<<>>}
    ELSE LET shorter == TextsOver(alphabet, n - 1)
         IN  shorter \cup {Append(t, ch) : t \in {s \in shorter : Len(s) = n - 1},
                                            ch \in alphabet}

RECURSIVE Texts(_)
Texts(n) ==
    IF n = 0 THEN {<<>>}
    ELSE LET shorter == Texts(n - 1)
         IN  shorter \cup {Append(t, ch) : t \in {s \in shorter : Len(s) = n - 1},
                                            ch \in Alphabet}

\* the texts an edit inserts: nothing, or one character
InsertTexts == {<<>>} \cup {<<ch>> : ch \in Alphabet}

None == [some |-> FALSE]
Some(v) == [some |-> TRUE, val |-> v]

----------------------------------------------------------------------------
(* textobjects/registry.rs: the registry of finders.  A finder is named by *)
(* its implementation; Custom is a finder of the caller (any implementor   *)
(* of TextObjectFinder) that lists kinds of both other finders.            *)

\* TextObjectKind; Pattern carries a string
TextObjectKinds ==
    {"Grapheme", "Word", "BigWord", "Line", "Paragraph", "Parentheses",
     "Brackets", "Braces", "Function", "Class", "Statement", "Parameter",
     "Comment", "String", "Pattern(p)"}

\* TextObjectFinder::supported_kinds
supported_kinds(finder) ==
    CASE finder = "Basic" ->
             {"Word", "BigWord", "Line", "Paragraph", "Parentheses", "Brackets",
              "Braces"}
      [] finder = "TreeSitter" ->
             {"Function", "Class", "Statement", "Parameter", "Comment", "String"}
      [] finder = "Custom" -> {"Word", "Function"}

\* TextObjectFinder::can_handle
can_handle(finder, text_obj) == text_obj.kind \in supported_kinds(finder)

\* TextObjectRegistry::new
TextObjectRegistry == [finders |-> <<>>, capability_cache |-> <<>>]

\* a register_finder whose cache keeps the first finder of a kind
register_finder_keeping_first(registry, finder) ==
    LET finder_index == Len(registry.finders)
        cache == registry.capability_cache
    IN  [finders |-> Append(registry.finders, finder),
         capability_cache |->
             [kind \in DOMAIN cache \cup supported_kinds(finder) |->
                 IF kind \in DOMAIN cache THEN cache[kind] ELSE finder_index]]

\* TextObjectRegistry::register_finder; finder indices count from 0
register_finder(registry, finder) ==
    LET finder_index == Len(registry.finders)
        cache == registry.capability_cache
    IN  [finders |-> Append(registry.finders, finder),
         capability_cache |->
             [kind \in DOMAIN cache \cup supported_kinds(finder) |->
                 IF kind \in supported_kinds(finder) THEN finder_index
                 ELSE cache[kind]]]

\* TextObjectRegistry::with_defaults
with_defaults == register_finder(TextObjectRegistry, "Basic")

----------------------------------------------------------------------------
(* core/src/edit.rs *)

Edit(s, e, t) == [start |-> s, end |-> e, text |-> t]
Edit_insert(position, text) == Edit(position, position, text)
Edit_delete(s, e) == Edit(s, e, <<>>)
Edit_replace(s, e, text) == Edit(s, e, text)

is_insert(edit) == edit.start = edit.end /\ edit.text # <<>>
is_delete(edit) == edit.start # edit.end /\ edit.text = <<>>
is_replace(edit) == edit.start # edit.end /\ edit.text # <<>>
is_noop(edit) == edit.start = edit.end /\ edit.text = <<>>

\* Edit::position() and Edit::inserted()
position(edit) == edit.start
inserted(edit) == edit.text

----------------------------------------------------------------------------
(* The rope (ropey): character-indexed, panics out of bounds.  A buffer     *)
(* value is [content, panicked].                                           *)

Rope(c) == [content |-> c, panicked |-> FALSE]
Panic(c) == [content |-> c, panicked |-> TRUE]

rope_insert(c, idx, text) ==
    IF idx > Len(c) THEN Panic(c)
    ELSE Rope(SubSeq(c, 1, idx) \o text \o SubSeq(c, idx + 1, Len(c)))

rope_remove(c, s, e) ==
    IF s > e \/ e > Len(c) THEN Panic(c)
    ELSE Rope(SubSeq(c, 1, s) \o SubSeq(c, e + 1, Len(c)))

\* slice(s..e).to_string(); the caller checks the bounds first
rope_slice(c, s, e) == SubSeq(c, s + 1, e)

slice_in_bounds(c, s, e) == s <= e /\ e <= Len(c)

----------------------------------------------------------------------------
(* core/src/buffer.rs *)

\* An apply result: the buffer, the removed text, whether the rope panicked
Applied(c, d, p) == [content |-> c, deleted |-> d, panicked |-> p]

handle_insertion(c, edit) ==
    LET r == rope_insert(c, edit.start, edit.text)
    IN  Applied(r.content, <<>>, r.panicked)

handle_deletion(c, edit) ==
    IF ~slice_in_bounds(c, edit.start, edit.end) THEN Applied(c, <<>>, TRUE)
    ELSE LET deleted_text == rope_slice(c, edit.start, edit.end)
             r == rope_remove(c, edit.start, edit.end)
         IN  Applied(r.content, deleted_text, r.panicked)

handle_replacement(c, edit) ==
    IF ~slice_in_bounds(c, edit.start, edit.end) THEN Applied(c, <<>>, TRUE)
    ELSE LET deleted_text == rope_slice(c, edit.start, edit.end)
             r == rope_remove(c, edit.start, edit.end)
             r2 == rope_insert(r.content, edit.start, edit.text)
         IN  Applied(r2.content, deleted_text, r2.panicked)

handle_noop(c, edit) == Applied(c, <<>>, FALSE)

apply_edit(c, edit) ==
    IF is_insert(edit) THEN handle_insertion(c, edit)
    ELSE IF is_delete(edit) THEN handle_deletion(c, edit)
    ELSE IF is_replace(edit) THEN handle_replacement(c, edit)
    ELSE handle_noop(c, edit)

\* a comparator written a.start.cmp(&b.start): ascending start
sort_keeps_ascending(a, b) == a.start <= b.start

\* the comparator of the sort: b.start.cmp(&a.start), TRUE when a is to stay
\* before b (descending start; the sort is stable, so ties keep their order)
sort_keeps(a, b) == a.start >= b.start

RECURSIVE insert_sorted(_, _, _)
\* put index i into the sorted index list, after every entry it may not pass
insert_sorted(edits, sorted, i) ==
    IF sorted = <<>> THEN <<i>>
    ELSE IF sort_keeps(edits[Head(sorted)], edits[i])
         THEN <<Head(sorted)>> \o insert_sorted(edits, Tail(sorted), i)
         ELSE <<i>> \o sorted

RECURSIVE sort_prefix(_, _)
\* the stable sort of the first n indices
sort_prefix(edits, n) ==
    IF n = 0 THEN <<>> ELSE insert_sorted(edits, sort_prefix(edits, n - 1), n)

\* indexed_edits after sort_by: the original indices in application order
indexed_edits(edits) == sort_prefix(edits, Len(edits))

RECURSIVE apply_loop(_, _, _, _)
\* the for loop of Buffer::apply over the sorted indices
apply_loop(c, edits, order, deleted_texts) ==
    IF order = <<>> THEN [content |-> c, deleted_texts |-> deleted_texts,
                          panicked |-> FALSE]
    ELSE LET i == Head(order)
             r == apply_edit(c, edits[i])
         IN  IF r.panicked
             THEN [content |-> r.content, deleted_texts |-> deleted_texts,
                   panicked |-> TRUE]
             ELSE apply_loop(r.content, edits, Tail(order),
                             [deleted_texts EXCEPT ![i] = r.deleted])

\* Buffer::apply: [content, deleted_texts, panicked]
apply(c, edits) ==
    apply_loop(c, edits, indexed_edits(edits), [i \in 1..Len(edits) |-> <<>>])

----------------------------------------------------------------------------
(* core/src/history.rs *)

HistoryEntry(edits, deleted_texts) ==
    [edits |-> edits, deleted_texts |-> deleted_texts]

History(u, r) == [undo_stack |-> u, redo_stack |-> r]

\* an emptiness test that forgets the all-noop case
should_ignore_edits_empty_only(edits) == edits = <<>>

should_ignore_edits(edits) ==
    edits = <<>> \/ \A i \in 1..Len(edits) : is_noop(edits[i])

\* a record that pushes and leaves the redo stack alone
record_keeping_redo(h, edits, deleted_texts) ==
    IF edits = <<>> \/ \A i \in 1..Len(edits) : is_noop(edits[i]) THEN h
    ELSE [undo_stack |-> Append(h.undo_stack,
                                [edits |-> edits, deleted_texts |-> deleted_texts]),
          redo_stack |-> h.redo_stack]

\* History::record
record(h, edits, deleted_texts) ==
    IF should_ignore_edits(edits) THEN h
    ELSE History(Append(h.undo_stack, HistoryEntry(edits, deleted_texts)), <<>>)

invert_insertion(edit) == Edit_delete(edit.start, edit.start + len(edit.text))
invert_deletion(edit, deleted_text) == Edit_insert(edit.start, deleted_text)
invert_replacement(edit, deleted_text) ==
    Edit_replace(edit.start, edit.start + len(edit.text), deleted_text)
invert_noop(edit) == Edit_insert(edit.start, <<>>)

invert_edit(edit, deleted_text) ==
    IF is_insert(edit) THEN invert_insertion(edit)
    ELSE IF is_delete(edit) THEN invert_deletion(edit, deleted_text)
    ELSE IF is_replace(edit) THEN invert_replacement(edit, deleted_text)
    ELSE invert_noop(edit)

Min(a, b) == IF a <= b THEN a ELSE b

\* zip(...).rev().map(invert_edit).collect()
create_inverse_edits(entry) ==
    LET n == Min(Len(entry.edits), Len(entry.deleted_texts))
    IN  [k \in 1..n |->
            invert_edit(entry.edits[n + 1 - k], entry.deleted_texts[n + 1 - k])]

\* an undo that takes the oldest transaction of the stack
undo_oldest(h) ==
    IF h.undo_stack = <<>> THEN [h |-> h, ret |-> None]
    ELSE [h |-> History(Tail(h.undo_stack), Append(h.redo_stack, Head(h.undo_stack))),
          ret |-> Some(create_inverse_edits(Head(h.undo_stack)))]

\* History::undo: [h, ret]
undo(h) ==
    IF h.undo_stack = <<>> THEN [h |-> h, ret |-> None]
    ELSE LET entry == h.undo_stack[Len(h.undo_stack)]
         IN  [h |-> History(SubSeq(h.undo_stack, 1, Len(h.undo_stack) - 1),
                            Append(h.redo_stack, entry)),
              ret |-> Some(create_inverse_edits(entry))]

\* History::redo: [h, ret]
redo(h) ==
    IF h.redo_stack = <<>> THEN [h |-> h, ret |-> None]
    ELSE LET entry == h.redo_stack[Len(h.redo_stack)]
         IN  [h |-> History(Append(h.undo_stack, entry),
                            SubSeq(h.redo_stack, 1, Len(h.redo_stack) - 1)),
              ret |-> Some(entry.edits)]

can_undo(h) == h.undo_stack # <<>>
can_redo(h) == h.redo_stack # <<>>
clear(h) == History(<<>>, <<>>)

----------------------------------------------------------------------------
(* The edit lists a caller may submit: ranges inside the buffer, pairwise   *)
(* non-overlapping, at most one insertion per offset.                      *)

disjoint(a, b) == a.end <= b.start \/ b.end <= a.start

NonOverlapping(edits) ==
    \A i, j \in 1..Len(edits) :
        i < j => /\ disjoint(edits[i], edits[j])
                 /\ ~(is_insert(edits[i]) /\ is_insert(edits[j])
                        /\ edits[i].start = edits[j].start)

EditsOn(n) ==
    {ed \in [start : 0..n, end : 0..n, text : InsertTexts] :
        ed.start <= ed.end}

RECURSIVE EditListsOfLen(_, _)
\* the non-overlapping lists of k edits on a buffer of n characters
EditListsOfLen(n, k) ==
    IF k = 0 THEN {<<>>}
    ELSE {l \in {Append(l, ed) : l \in EditListsOfLen(n, k - 1), ed \in EditsOn(n)} :
             NonOverlapping(l)}

\* by buffer length, the edit lists a caller may submit
EditListsByLen ==
    [n \in 0..MaxLen |-> UNION {EditListsOfLen(n, k) : k \in 0..MaxEdits}]

EditLists(c) == EditListsByLen[Len(c)]

----------------------------------------------------------------------------
(* A host driving core's Buffer and History: it applies a transaction and  *)
(* records it with the removed texts apply returned; it applies to the     *)
(* buffer what undo and redo return.                                       *)

Hist == History(undo_stack, redo_stack)
SetHist(h) == undo_stack' = h.undo_stack /\ redo_stack' = h.redo_stack
StackSizes == [undo |-> Len(undo_stack), redo |-> Len(redo_stack)]

\* the last call and the number of edits it was given
Call(op, n) == [op |-> op, n |-> n]

RECURSIVE Recorded(_)
\* the number of edits a stack of core's History holds
Recorded(stack) ==
    IF stack = <<>> THEN 0 ELSE Len(Head(stack).edits) + Recorded(Tail(stack))

\* let removed = buffer.apply(&edits);
BufferApply(edits) ==
    /\ LET r == apply(content, edits)
       IN  /\ content' = r.content
           /\ panicked' = r.panicked
           /\ ret' = r.deleted_texts
    /\ modified' = (modified \/ edits # <<>>)
    /\ txn' = edits
    /\ pre' = Some(content)
    /\ pc' = "applied"
    /\ last' = Call("apply", Len(edits))
    /\ UNCHANGED <<undo_stack, redo_stack, selection, prior>>
    /\ UNCHANGED text_objects

\* history.record(edits, removed);  both lists are moved into the call
HistoryRecord ==
    /\ pc = "applied" /\ ~panicked
    /\ SetHist(record(Hist, txn, ret))
    /\ prior' = StackSizes
    /\ pre' = IF should_ignore_edits(txn) THEN None ELSE pre
    /\ txn' = <<>>
    /\ ret' = <<>>
    /\ pc' = "idle"
    /\ last' = Call("record", Len(txn))
    /\ UNCHANGED <<content, modified, selection, panicked>>
    /\ UNCHANGED text_objects

\* let inverse = history.undo();
HistoryUndo ==
    /\ pc = "idle" /\ ~panicked
    /\ LET r == undo(Hist)
       IN  /\ SetHist(r.h)
           /\ ret' = r.ret
           /\ pc' = IF r.ret.some THEN "undone" ELSE "idle"
           /\ pre' = IF r.ret.some /\ last.op = "record" THEN pre ELSE None
    /\ prior' = StackSizes
    /\ last' = Call("undo", 0)
    /\ UNCHANGED <<content, modified, selection, txn, panicked>>
    /\ UNCHANGED text_objects

\* buffer.apply(&inverse);
ApplyInverse ==
    /\ pc = "undone" /\ ~panicked
    /\ LET r == apply(content, ret.val)
       IN  /\ content' = r.content
           /\ panicked' = r.panicked
    /\ modified' = (modified \/ ret.val # <<>>)
    /\ ret' = <<>>
    /\ pc' = "idle"
    /\ last' = Call("apply_inverse", Len(ret.val))
    /\ UNCHANGED <<undo_stack, redo_stack, selection, txn, pre, prior>>
    /\ UNCHANGED text_objects

\* let edits = history.redo();
HistoryRedo ==
    /\ pc = "idle" /\ ~panicked
    /\ LET r == redo(Hist)
       IN  /\ SetHist(r.h)
           /\ ret' = r.ret
           /\ pc' = IF r.ret.some THEN "redone" ELSE "idle"
    /\ prior' = StackSizes
    /\ pre' = None
    /\ last' = Call("redo", 0)
    /\ UNCHANGED <<content, modified, selection, txn, panicked>>
    /\ UNCHANGED text_objects

\* buffer.apply(&edits);
ApplyRedo ==
    /\ pc = "redone" /\ ~panicked
    /\ LET r == apply(content, ret.val)
       IN  /\ content' = r.content
           /\ panicked' = r.panicked
    /\ modified' = (modified \/ ret.val # <<>>)
    /\ ret' = <<>>
    /\ pc' = "idle"
    /\ last' = Call("apply_redo", Len(ret.val))
    /\ UNCHANGED <<undo_stack, redo_stack, selection, txn, pre, prior>>
    /\ UNCHANGED text_objects

\* history.clear();
HistoryClear ==
    /\ pc = "idle" /\ ~panicked
    /\ SetHist(clear(Hist))
    /\ prior' = StackSizes
    /\ pre' = None
    /\ ret' = <<>>
    /\ last' = Call("clear", 0)
    /\ UNCHANGED <<content, modified, selection, pc, txn, panicked>>
    /\ UNCHANGED text_objects

\* Buffer::new / from_str, History::new, Selection::new(0, 0)
InitCommon ==
    /\ modified = FALSE
    /\ undo_stack = <<>>
    /\ redo_stack = <<>>
    /\ selection = [anchor |-> 0, head |-> 0]
    /\ txn = <<>>
    /\ ret = <<>>
    /\ pre = None
    /\ prior = [undo |-> 0, redo |-> 0]
    /\ last = Call("new", 0)
    /\ panicked = FALSE
    /\ text_objects = with_defaults

Init ==
    /\ content \in Texts(MaxLen)
    /\ pc = "idle"
    /\ InitCommon

Next ==
    \/ /\ pc = "idle" /\ ~panicked /\ Len(content) <= MaxLen
       /\ \E edits \in EditLists(content) :
            /\ Len(edits) + Recorded(undo_stack) <= MaxEdits
            /\ BufferApply(edits)
    \/ HistoryRecord
    \/ HistoryUndo
    \/ ApplyInverse
    \/ HistoryRedo
    \/ ApplyRedo
    \/ HistoryClear

Spec == Init /\ [][Next]_vars

----------------------------------------------------------------------------
(* Buffer::apply as a function of its inputs: the buffer and the edit list *)
(* are drawn in the initial state and applied once.                        *)

Digits == <<"0", "1", "2", "3", "4", "5", "6", "7", "8", "9">>

DigitTxns ==
    {<<Edit_delete(5, 8), Edit_insert(0, <<"X">>)>>,
     <<Edit_insert(0, <<"X">>), Edit_delete(5, 8)>>,
     <<Edit_delete(5, 8)>>,
     <<Edit_insert(0, <<"X">>)>>}

InitApply ==
    /\ \/ content \in Texts(MaxLen) /\ txn \in EditLists(content)
       \/ content = Digits /\ txn \in DigitTxns
    /\ pc = "input"
    /\ modified = FALSE
    /\ undo_stack = <<>>
    /\ redo_stack = <<>>
    /\ selection = [anchor |-> 0, head |-> 0]
    /\ ret = <<>>
    /\ pre = None
    /\ prior = [undo |-> 0, redo |-> 0]
    /\ last = Call("new", 0)
    /\ panicked = FALSE
    /\ text_objects = with_defaults

ApplyInput == pc = "input" /\ BufferApply(txn)

NextApply == ApplyInput

SpecApply == InitApply /\ [][NextApply]_vars

----------------------------------------------------------------------------
(* gauchito-core/src/selection.rs *)

Selection(anchor, head) == [anchor |-> anchor, head |-> head]
is_cursor(sel) == sel.anchor = sel.head
cursor_to(sel, pos) == Selection(pos, pos)
set_range(sel, anchor, head) == Selection(anchor, head)
\* a range that returns the stored pair as it is
range_as_stored(sel) == <<sel.anchor, sel.head>>

\* Selection::range(): <<start, end>>
range(sel) ==
    IF sel.anchor <= sel.head THEN <<sel.anchor, sel.head>>
    ELSE <<sel.head, sel.anchor>>

----------------------------------------------------------------------------
(* gauchito-core/src/buffer.rs *)

\* the loop body of Buffer::apply: remove the range, then insert the text
G_apply_one(c, edit) ==
    LET r == IF edit.start # edit.end
             THEN rope_remove(c, edit.start, edit.end)
             ELSE Rope(c)
    IN  IF r.panicked \/ edit.text = <<>> THEN r
        ELSE rope_insert(r.content, edit.start, edit.text)

RECURSIVE G_apply_loop(_, _, _)
G_apply_loop(c, edits, order) ==
    IF order = <<>> THEN Rope(c)
    ELSE LET r == G_apply_one(c, edits[Head(order)])
         IN  IF r.panicked THEN r
             ELSE G_apply_loop(r.content, edits, Tail(order))

\* Buffer::apply of gauchito-core: [content, panicked]
G_apply(c, edits) == G_apply_loop(c, edits, indexed_edits(edits))

----------------------------------------------------------------------------
(* gauchito-core/src/history.rs *)

EditWithContext(edit, deleted_text) == [edit |-> edit, deleted_text |-> deleted_text]

\* a record that pushes every edit as a transaction of its own
record_with_context_per_edit(h, edits) ==
    History(h.undo_stack \o [i \in 1..Len(edits) |->
                                <<[edit |-> edits[i][1], deleted_text |-> edits[i][2]]>>],
            <<>>)

\* History::record_with_context; edits is a list of <<edit, deleted_text>>
record_with_context(h, edits) ==
    IF edits = <<>> THEN h
    ELSE History(Append(h.undo_stack,
                        [i \in 1..Len(edits) |->
                            EditWithContext(edits[i][1], edits[i][2])]),
                 <<>>)

invert_edit_with_context(ewc) ==
    LET edit == ewc.edit
    IN  IF edit.start = edit.end /\ edit.text # <<>>
        THEN Edit_delete(edit.start, edit.start + len(edit.text))
        ELSE IF edit.start # edit.end /\ edit.text = <<>>
        THEN Edit_insert(edit.start, ewc.deleted_text)
        ELSE IF edit.start # edit.end /\ edit.text # <<>>
        THEN Edit_replace(edit.start, edit.start + len(edit.text), ewc.deleted_text)
        ELSE Edit_insert(edit.start, <<>>)

invert_transaction(transaction) ==
    LET n == Len(transaction)
    IN  [k \in 1..n |-> invert_edit_with_context(transaction[n + 1 - k])]

\* an undo that hands out an empty transaction when the stack is empty
G_undo_empty_transaction(h) ==
    IF h.undo_stack = <<>> THEN [h |-> h, ret |-> Some(<<>>)]
    ELSE LET transaction == h.undo_stack[Len(h.undo_stack)]
             original_edits == [i \in 1..Len(transaction) |-> transaction[i].edit]
         IN  [h |-> History(SubSeq(h.undo_stack, 1, Len(h.undo_stack) - 1),
                            Append(h.redo_stack, original_edits)),
              ret |-> Some(invert_transaction(transaction))]

\* History::undo of gauchito-core: [h, ret]
G_undo(h) ==
    IF h.undo_stack = <<>> THEN [h |-> h, ret |-> None]
    ELSE LET transaction == h.undo_stack[Len(h.undo_stack)]
             original_edits == [i \in 1..Len(transaction) |-> transaction[i].edit]
         IN  [h |-> History(SubSeq(h.undo_stack, 1, Len(h.undo_stack) - 1),
                            Append(h.redo_stack, original_edits)),
              ret |-> Some(invert_transaction(transaction))]

\* History::redo of gauchito-core: [h, ret]
G_redo(h) ==
    IF h.redo_stack = <<>> THEN [h |-> h, ret |-> None]
    ELSE LET transaction == h.redo_stack[Len(h.redo_stack)]
             edits_with_context ==
                 [i \in 1..Len(transaction) |->
                     EditWithContext(transaction[i], <<>>)]
         IN  [h |-> History(Append(h.undo_stack, edits_with_context),
                            SubSeq(h.redo_stack, 1, Len(h.redo_stack) - 1)),
              ret |-> Some(transaction)]

----------------------------------------------------------------------------
(* gauchito-core/src/context.rs.  A context value is                        *)
(* [content, modified, selection, undo_stack, redo_stack, panicked].       *)

Context(c, m, sel, u, r, p) ==
    [content |-> c, modified |-> m, selection |-> sel,
     undo_stack |-> u, redo_stack |-> r, panicked |-> p]

\* the context dies in a panic: nothing of the call is completed
Dead(ctx) == [ctx EXCEPT !.panicked = TRUE]

calculate_cursor_position_after_edits(ctx, edits) ==
    IF edits = <<>> THEN ctx.selection.head
    ELSE LET last_edit == edits[Len(edits)]
         IN  IF last_edit.text = <<>> THEN last_edit.start
             ELSE last_edit.start + len(last_edit.text)

\* Context::apply_edits
apply_edits(ctx, edits) ==
    IF edits = <<>> THEN ctx
    ELSE IF \E i \in 1..Len(edits) :
                edits[i].start # edits[i].end
                    /\ ~slice_in_bounds(ctx.content, edits[i].start, edits[i].end)
    THEN Dead(ctx)
    ELSE LET edits_with_context ==
                 [i \in 1..Len(edits) |->
                     <<edits[i],
                       IF edits[i].start # edits[i].end
                       THEN rope_slice(ctx.content, edits[i].start, edits[i].end)
                       ELSE <<>> >>]
             new_cursor_pos == calculate_cursor_position_after_edits(ctx, edits)
             b == G_apply(ctx.content, edits)
             h == record_with_context(History(ctx.undo_stack, ctx.redo_stack),
                                      edits_with_context)
         IN  IF b.panicked
             THEN Context(b.content, ctx.modified, ctx.selection,
                          ctx.undo_stack, ctx.redo_stack, TRUE)
             ELSE Context(b.content, TRUE, cursor_to(ctx.selection, new_cursor_pos),
                          h.undo_stack, h.redo_stack, FALSE)

----------------------------------------------------------------------------
(* gauchito-core/src/text_objects.rs: grapheme boundaries.  Every character *)
(* of the alphabet is an extended grapheme cluster of its own.             *)

\* [pos, panicked]: char_to_byte panics past the end of the rope
prev_grapheme_char_index(c, char_idx) ==
    IF char_idx > Len(c) THEN [pos |-> 0, panicked |-> TRUE]
    ELSE [pos |-> IF char_idx = 0 THEN 0 ELSE char_idx - 1, panicked |-> FALSE]

next_grapheme_char_index(c, char_idx) ==
    IF char_idx > Len(c) THEN [pos |-> 0, panicked |-> TRUE]
    ELSE [pos |-> IF char_idx >= Len(c) THEN Len(c) ELSE char_idx + 1,
          panicked |-> FALSE]

----------------------------------------------------------------------------
(* Characters (char::is_whitespace, is_alphanumeric, is_uppercase,         *)
(* to_uppercase, to_lowercase) and the line index of the rope.             *)

is_whitespace(ch) == ch \in {" ", "\n", "\t"}
is_alphanumeric(ch) ==
    ch \in {"a", "b", "c", "f", "o", "r", "é", "A", "B", "É", "0", "1", "2", "3", "4", "5", "6", "7",
            "8", "9"}
is_uppercase(ch) == ch \in {"A", "B", "É"}

\* char::to_uppercase and to_lowercase, one character each in this alphabet
char_to_uppercase(ch) ==
    CASE ch = "a" -> "A" [] ch = "b" -> "B" [] ch = "é" -> "É" [] OTHER -> ch
char_to_lowercase(ch) ==
    CASE ch = "A" -> "a" [] ch = "B" -> "b" [] ch = "É" -> "é" [] OTHER -> ch

to_uppercase(text) == [i \in 1..Len(text) |-> char_to_uppercase(text[i])]
to_lowercase(text) == [i \in 1..Len(text) |-> char_to_lowercase(text[i])]

\* Rope::len_lines: the line breaks plus one
len_lines(c) == Cardinality({i \in 1..Len(c) : c[i] = "\n"}) + 1

\* Rope::char_to_line, for char_idx <= len_chars (it panics beyond)
char_to_line(c, char_idx) == Cardinality({i \in 1..char_idx : c[i] = "\n"})

\* Rope::line_to_char, for line_idx <= len_lines (it panics beyond)
line_to_char(c, line_idx) ==
    IF line_idx = 0 THEN 0
    ELSE IF line_idx >= len_lines(c) THEN Len(c)
    ELSE CHOOSE i \in 1..Len(c) :
             c[i] = "\n" /\ char_to_line(c, i - 1) = line_idx - 1

\* Rope::line, for line_idx < len_lines: the line with its line break
line(c, line_idx) ==
    SubSeq(c, line_to_char(c, line_idx) + 1,
           IF line_idx + 1 < len_lines(c) THEN line_to_char(c, line_idx + 1)
           ELSE Len(c))

saturating_sub(a, b) == IF a >= b THEN a - b ELSE 0

----------------------------------------------------------------------------
(* gauchito-core/src/text_objects.rs: words, brackets, paragraphs.  The    *)
(* index is within the rope (slice.char panics beyond it).                 *)

\* the test that ends a scanning loop of the word functions
scan_stops(kind, ch) ==
    CASE kind = "whitespace" -> ~is_whitespace(ch)
      [] kind = "word" -> is_whitespace(ch) \/ ~is_alphanumeric(ch)
      [] kind = "big_word" -> is_whitespace(ch)

RECURSIVE scan_backward(_, _, _)
\* while pos > 0 { if stops(slice.char(pos - 1)) break; pos -= 1 }
scan_backward(c, pos, kind) ==
    IF pos > 0 /\ ~scan_stops(kind, c[pos]) THEN scan_backward(c, pos - 1, kind)
    ELSE pos

RECURSIVE scan_forward(_, _, _)
\* while pos < len { if stops(slice.char(pos)) break; pos += 1 }
scan_forward(c, pos, kind) ==
    IF pos < Len(c) /\ ~scan_stops(kind, c[pos + 1])
    THEN scan_forward(c, pos + 1, kind)
    ELSE pos

word_start_index(c, char_idx) ==
    IF char_idx = 0 THEN 0
    ELSE scan_backward(c, scan_backward(c, char_idx, "whitespace"), "word")

word_end_index(c, char_idx) ==
    IF char_idx >= Len(c) THEN Len(c)
    ELSE scan_forward(c, scan_forward(c, char_idx, "whitespace"), "word")

big_word_start_index(c, char_idx) ==
    IF char_idx = 0 THEN 0
    ELSE scan_backward(c, scan_backward(c, char_idx, "whitespace"), "big_word")

big_word_end_index(c, char_idx) ==
    IF char_idx >= Len(c) THEN Len(c)
    ELSE scan_forward(c, scan_forward(c, char_idx, "whitespace"), "big_word")

RECURSIVE bracket_scan(_, _, _, _, _, _)
\* the while loop of find_matching_bracket; pos is a signed index
bracket_scan(c, pos, count, open, close, direction) ==
    IF pos < 0 \/ pos >= Len(c) THEN None
    ELSE LET current_ch == c[pos + 1]
             n == IF current_ch = open THEN count + direction
                  ELSE IF current_ch = close THEN count - direction
                  ELSE count
         IN  IF n = 0 THEN Some(pos)
             ELSE bracket_scan(c, pos + direction, n, open, close, direction)

\* a find_matching_bracket that takes a close bracket for no bracket
find_matching_bracket_open_only(c, char_idx) ==
    IF char_idx >= Len(c) THEN None
    ELSE LET ch == c[char_idx + 1]
         IN  CASE ch = "(" -> bracket_scan(c, char_idx + 1, 1, "(", ")", 1)
               [] ch = "[" -> bracket_scan(c, char_idx + 1, 1, "[", "]", 1)
               [] ch = "{" -> bracket_scan(c, char_idx + 1, 1, "{", "}", 1)
               [] OTHER -> None

find_matching_bracket(c, char_idx) ==
    IF char_idx >= Len(c) THEN None
    ELSE LET ch == c[char_idx + 1]
         IN  CASE ch = "(" -> bracket_scan(c, char_idx + 1, 1, "(", ")", 1)
               [] ch = ")" -> bracket_scan(c, char_idx - 1, 1, "(", ")", -1)
               [] ch = "[" -> bracket_scan(c, char_idx + 1, 1, "[", "]", 1)
               [] ch = "]" -> bracket_scan(c, char_idx - 1, 1, "[", "]", -1)
               [] ch = "{" -> bracket_scan(c, char_idx + 1, 1, "{", "}", 1)
               [] ch = "}" -> bracket_scan(c, char_idx - 1, 1, "{", "}", -1)
               [] OTHER -> None

\* line.chars().all(|c| c.is_whitespace())
blank_line(c, line_idx) ==
    \A i \in 1..Len(line(c, line_idx)) : is_whitespace(line(c, line_idx)[i])

RECURSIVE paragraph_up(_, _)
paragraph_up(c, current_line) ==
    IF current_line > 0 /\ ~blank_line(c, current_line - 1)
    THEN paragraph_up(c, current_line - 1)
    ELSE current_line

RECURSIVE paragraph_down(_, _)
paragraph_down(c, current_line) ==
    IF current_line + 1 < len_lines(c) /\ ~blank_line(c, current_line + 1)
    THEN paragraph_down(c, current_line + 1)
    ELSE current_line

paragraph_start_index(c, char_idx) ==
    line_to_char(c, paragraph_up(c, char_to_line(c, char_idx)))

paragraph_end_index(c, char_idx) ==
    LET current_line == paragraph_down(c, char_to_line(c, char_idx))
    IN  IF current_line + 1 < len_lines(c) THEN line_to_char(c, current_line + 1)
        ELSE Len(c)

----------------------------------------------------------------------------
(* String (str) operations of the search operations.  A String is indexed  *)
(* by byte; indexing off a character boundary panics.                      *)

\* the byte offset of the character offset k
byte_of(c, k) == len(SubSeq(c, 1, k))

is_char_boundary(c, b) == \E k \in 0..Len(c) : byte_of(c, k) = b

\* the character offset at the byte offset b, a character boundary
char_of(c, b) == CHOOSE k \in 0..Len(c) : byte_of(c, k) = b

\* the character offsets in [from, to] at which the pattern occurs
matches(c, pattern, from, to) ==
    {j \in from..to : j + Len(pattern) <= to
                        /\ SubSeq(c, j + 1, j + Len(pattern)) = pattern}

\* content[start..].find(pattern): the byte offset in the slice
str_find(c, start, pattern) ==
    LET m == matches(c, pattern, char_of(c, start), Len(c))
    IN  IF m = {} THEN None
        ELSE Some(byte_of(c, CHOOSE j \in m : \A k \in m : j <= k) - start)

\* content[..end].rfind(pattern): the byte offset
str_rfind(c, end, pattern) ==
    LET m == matches(c, pattern, 0, char_of(c, end))
    IN  IF m = {} THEN None
        ELSE Some(byte_of(c, CHOOSE j \in m : \A k \in m : j >= k))

RECURSIVE str_replace_from(_, _, _, _)
\* str::replace from the character offset k on, for a non-empty pattern
str_replace_from(c, k, pattern, replacement) ==
    IF k >= Len(c) THEN <<>>
    ELSE IF k + Len(pattern) <= Len(c)
            /\ SubSeq(c, k + 1, k + Len(pattern)) = pattern
    THEN replacement \o str_replace_from(c, k + Len(pattern), pattern, replacement)
    ELSE <<c[k + 1]>> \o str_replace_from(c, k + 1, pattern, replacement)

RECURSIVE str_interleave(_, _)
\* the replacement put after every character
str_interleave(c, replacement) ==
    IF c = <<>> THEN <<>>
    ELSE <<Head(c)>> \o replacement \o str_interleave(Tail(c), replacement)

\* str::replace; the empty pattern matches at every character boundary
str_replace(c, pattern, replacement) ==
    IF pattern = <<>> THEN replacement \o str_interleave(c, replacement)
    ELSE str_replace_from(c, 0, pattern, replacement)

----------------------------------------------------------------------------
(* gauchito-core/src/operations.rs: execute() of each operation, as a      *)
(* function from the context to the context it leaves.                     *)

MoveLeft(ctx) ==
    LET g == prev_grapheme_char_index(ctx.content, ctx.selection.head)
    IN  IF g.panicked THEN Dead(ctx)
        ELSE [ctx EXCEPT !.selection = cursor_to(ctx.selection, g.pos)]

MoveRight(ctx) ==
    LET g == next_grapheme_char_index(ctx.content, ctx.selection.head)
    IN  IF g.panicked THEN Dead(ctx)
        ELSE [ctx EXCEPT !.selection = cursor_to(ctx.selection, g.pos)]

SelectLeft(ctx) ==
    LET g == prev_grapheme_char_index(ctx.content, ctx.selection.head)
    IN  IF g.panicked THEN Dead(ctx)
        ELSE [ctx EXCEPT !.selection =
                  set_range(ctx.selection, ctx.selection.anchor, g.pos)]

SelectRight(ctx) ==
    LET g == next_grapheme_char_index(ctx.content, ctx.selection.head)
    IN  IF g.panicked THEN Dead(ctx)
        ELSE [ctx EXCEPT !.selection =
                  set_range(ctx.selection, ctx.selection.anchor, g.pos)]

InsertChar(ctx, ch) ==
    LET r == range(ctx.selection)
    IN  apply_edits(ctx, <<Edit_replace(r[1], r[2], <<ch>>)>>)

DeleteChar(ctx) ==
    LET r == range(ctx.selection)
    IN  IF r[1] # r[2] THEN apply_edits(ctx, <<Edit_delete(r[1], r[2])>>)
        ELSE IF r[1] < Len(ctx.content)
        THEN LET g == next_grapheme_char_index(ctx.content, r[1])
             IN  IF g.panicked THEN Dead(ctx)
                 ELSE apply_edits(ctx, <<Edit_delete(r[1], g.pos)>>)
        ELSE ctx

Backspace(ctx) ==
    LET r == range(ctx.selection)
    IN  IF r[1] # r[2] THEN apply_edits(ctx, <<Edit_delete(r[1], r[2])>>)
        ELSE IF r[1] > 0
        THEN LET g == prev_grapheme_char_index(ctx.content, r[1])
             IN  IF g.panicked THEN Dead(ctx)
                 ELSE apply_edits(ctx, <<Edit_delete(g.pos, r[1])>>)
        ELSE ctx

\* what Undo and Redo do with the edits the history returned
reapply(ctx, h, edits, new_cursor_pos) ==
    LET b == G_apply(ctx.content, edits)
    IN  IF b.panicked
        THEN Context(b.content, ctx.modified, ctx.selection,
                     h.undo_stack, h.redo_stack, TRUE)
        ELSE Context(b.content, ctx.modified \/ edits # <<>>,
                     cursor_to(ctx.selection, new_cursor_pos),
                     h.undo_stack, h.redo_stack, FALSE)

Undo(ctx) ==
    LET r == G_undo(History(ctx.undo_stack, ctx.redo_stack))
    IN  IF ~r.ret.some THEN ctx
        ELSE LET inverse_edits == r.ret.val
                 new_cursor_pos == IF inverse_edits = <<>> THEN 0
                                   ELSE position(inverse_edits[1])
             IN  reapply(ctx, r.h, inverse_edits, new_cursor_pos)

Redo(ctx) ==
    LET r == G_redo(History(ctx.undo_stack, ctx.redo_stack))
    IN  IF ~r.ret.some THEN ctx
        ELSE LET edits_to_reapply == r.ret.val
                 e == edits_to_reapply[Len(edits_to_reapply)]
                 new_cursor_pos == IF edits_to_reapply = <<>> THEN 0
                                   ELSE position(e) + len(inserted(e))
             IN  reapply(ctx, r.h, edits_to_reapply, new_cursor_pos)

\* the head of the selection is an offset of the rope: char_to_line and
\* slice.char do not panic on it
head_on_rope(ctx) == ctx.selection.head <= Len(ctx.content)

MoveTo(ctx, pos) == [ctx EXCEPT !.selection = cursor_to(ctx.selection, pos)]
SelectTo(ctx, anchor, head) ==
    [ctx EXCEPT !.selection = set_range(ctx.selection, anchor, head)]

\* the head moved one line up (delta = -1) or down (delta = 1), as MoveUp,
\* MoveDown, SelectUp and SelectDown compute it
vertical_head(c, head, delta) ==
    LET line_idx == char_to_line(c, head)
        col == head - line_to_char(c, line_idx)
        other_start == line_to_char(c, line_idx + delta)
        other_len == saturating_sub(Len(line(c, line_idx + delta)), 1)
    IN  other_start + Min(col, other_len)

MoveUp(ctx) ==
    IF ~head_on_rope(ctx) THEN Dead(ctx)
    ELSE IF char_to_line(ctx.content, ctx.selection.head) > 0
    THEN MoveTo(ctx, vertical_head(ctx.content, ctx.selection.head, -1))
    ELSE ctx

MoveDown(ctx) ==
    IF ~head_on_rope(ctx) THEN Dead(ctx)
    ELSE IF char_to_line(ctx.content, ctx.selection.head) + 1 < len_lines(ctx.content)
    THEN MoveTo(ctx, vertical_head(ctx.content, ctx.selection.head, 1))
    ELSE ctx

\* line_start and line_end ("exclude newline") of the head's line
head_line_start(ctx) ==
    line_to_char(ctx.content, char_to_line(ctx.content, ctx.selection.head))
head_line_end(ctx) ==
    LET line_idx == char_to_line(ctx.content, ctx.selection.head)
    IN  line_to_char(ctx.content, line_idx)
            + saturating_sub(Len(line(ctx.content, line_idx)), 1)
\* the start of the next line, or the end of the buffer
head_line_next(ctx) ==
    LET line_idx == char_to_line(ctx.content, ctx.selection.head)
    IN  IF line_idx + 1 < len_lines(ctx.content)
        THEN line_to_char(ctx.content, line_idx + 1)
        ELSE Len(ctx.content)

MoveLineStart(ctx) ==
    IF ~head_on_rope(ctx) THEN Dead(ctx) ELSE MoveTo(ctx, head_line_start(ctx))

MoveLineEnd(ctx) ==
    IF ~head_on_rope(ctx) THEN Dead(ctx) ELSE MoveTo(ctx, head_line_end(ctx))

MoveWordForward(ctx) ==
    MoveTo(ctx, word_end_index(ctx.content, ctx.selection.head))

MoveWordBackward(ctx) ==
    IF ~head_on_rope(ctx) THEN Dead(ctx)
    ELSE MoveTo(ctx, word_start_index(ctx.content, ctx.selection.head))

MoveBigWordForward(ctx) ==
    MoveTo(ctx, big_word_end_index(ctx.content, ctx.selection.head))

MoveBigWordBackward(ctx) ==
    IF ~head_on_rope(ctx) THEN Dead(ctx)
    ELSE MoveTo(ctx, big_word_start_index(ctx.content, ctx.selection.head))

MoveDocumentStart(ctx) == MoveTo(ctx, 0)
\* a move to the end of the buffer made as an edit that inserts nothing
MoveDocumentEnd_as_edit(ctx) ==
    apply_edits(ctx, <<Edit_insert(Len(ctx.content), <<>>)>>)

MoveDocumentEnd(ctx) == MoveTo(ctx, Len(ctx.content))

\* a move that lands one character past the matching bracket
MoveMatchingBracket_past(ctx) ==
    LET found == find_matching_bracket(ctx.content, ctx.selection.head)
    IN  IF found.some THEN MoveTo(ctx, found.val + 1) ELSE ctx

MoveMatchingBracket(ctx) ==
    LET found == find_matching_bracket(ctx.content, ctx.selection.head)
    IN  IF found.some THEN MoveTo(ctx, found.val) ELSE ctx

MoveParagraphForward(ctx) ==
    IF ~head_on_rope(ctx) THEN Dead(ctx)
    ELSE MoveTo(ctx, paragraph_end_index(ctx.content, ctx.selection.head))

MoveParagraphBackward(ctx) ==
    IF ~head_on_rope(ctx) THEN Dead(ctx)
    ELSE MoveTo(ctx, paragraph_start_index(ctx.content, ctx.selection.head))

SelectUp(ctx) ==
    IF ~head_on_rope(ctx) THEN Dead(ctx)
    ELSE IF char_to_line(ctx.content, ctx.selection.head) > 0
    THEN SelectTo(ctx, ctx.selection.anchor,
                  vertical_head(ctx.content, ctx.selection.head, -1))
    ELSE ctx

SelectDown(ctx) ==
    IF ~head_on_rope(ctx) THEN Dead(ctx)
    ELSE IF char_to_line(ctx.content, ctx.selection.head) + 1 < len_lines(ctx.content)
    THEN SelectTo(ctx, ctx.selection.anchor,
                  vertical_head(ctx.content, ctx.selection.head, 1))
    ELSE ctx

SelectWord(ctx) ==
    IF ~head_on_rope(ctx) THEN Dead(ctx)
    ELSE SelectTo(ctx, word_start_index(ctx.content, ctx.selection.head),
                  word_end_index(ctx.content, ctx.selection.head))

\* a select_line that leaves the line terminator out
SelectLine_without_terminator(ctx) ==
    IF ~head_on_rope(ctx) THEN Dead(ctx)
    ELSE SelectTo(ctx, head_line_start(ctx), head_line_end(ctx))

SelectLine(ctx) ==
    IF ~head_on_rope(ctx) THEN Dead(ctx)
    ELSE SelectTo(ctx, head_line_start(ctx), head_line_next(ctx))

SelectAll(ctx) == SelectTo(ctx, 0, Len(ctx.content))

SelectLineStart(ctx) ==
    IF ~head_on_rope(ctx) THEN Dead(ctx)
    ELSE SelectTo(ctx, ctx.selection.anchor, head_line_start(ctx))

SelectLineEnd(ctx) ==
    IF ~head_on_rope(ctx) THEN Dead(ctx)
    ELSE SelectTo(ctx, ctx.selection.anchor, head_line_end(ctx))

ClearSelection(ctx) == MoveTo(ctx, ctx.selection.head)

InsertString(ctx, text) ==
    LET r == range(ctx.selection)
    IN  apply_edits(ctx, <<Edit_replace(r[1], r[2], text)>>)

InsertNewline(ctx) ==
    LET r == range(ctx.selection)
    IN  apply_edits(ctx, <<Edit_replace(r[1], r[2], <<"\n">>)>>)

InsertTab(ctx) ==
    LET r == range(ctx.selection)
    IN  apply_edits(ctx, <<Edit_replace(r[1], r[2], <<"\t">>)>>)

InsertSpaces(ctx, count) ==
    LET r == range(ctx.selection)
        spaces == [i \in 1..count |-> " "]
    IN  apply_edits(ctx, <<Edit_replace(r[1], r[2], spaces)>>)

DeleteWord(ctx) ==
    LET r == range(ctx.selection)
        word_end == word_end_index(ctx.content, r[1])
    IN  IF r[1] # r[2] THEN apply_edits(ctx, <<Edit_delete(r[1], r[2])>>)
        ELSE IF r[1] < word_end THEN apply_edits(ctx, <<Edit_delete(r[1], word_end)>>)
        ELSE ctx

DeleteWordBackward(ctx) ==
    LET r == range(ctx.selection)
    IN  IF r[1] # r[2] THEN apply_edits(ctx, <<Edit_delete(r[1], r[2])>>)
        ELSE IF r[1] > Len(ctx.content) THEN Dead(ctx)
        ELSE LET word_start == word_start_index(ctx.content, r[1])
             IN  IF word_start < r[1]
                 THEN apply_edits(ctx, <<Edit_delete(word_start, r[1])>>)
                 ELSE ctx

DeleteLine(ctx) ==
    IF ~head_on_rope(ctx) THEN Dead(ctx)
    ELSE IF head_line_start(ctx) < head_line_next(ctx)
    THEN apply_edits(ctx, <<Edit_delete(head_line_start(ctx), head_line_next(ctx))>>)
    ELSE ctx

DeleteToLineStart(ctx) ==
    IF ~head_on_rope(ctx) THEN Dead(ctx)
    ELSE IF head_line_start(ctx) < ctx.selection.head
    THEN apply_edits(ctx, <<Edit_delete(head_line_start(ctx), ctx.selection.head)>>)
    ELSE ctx

DeleteToLineEnd(ctx) ==
    IF ~head_on_rope(ctx) THEN Dead(ctx)
    ELSE IF ctx.selection.head < head_line_end(ctx)
    THEN apply_edits(ctx, <<Edit_delete(ctx.selection.head, head_line_end(ctx))>>)
    ELSE ctx

\* the selected range can be sliced out of the rope
selection_on_rope(ctx) == range(ctx.selection)[2] <= Len(ctx.content)

selected_text(ctx) ==
    rope_slice(ctx.content, range(ctx.selection)[1], range(ctx.selection)[2])

Copy(ctx) ==
    IF ~is_cursor(ctx.selection) /\ ~selection_on_rope(ctx) THEN Dead(ctx) ELSE ctx

Cut(ctx) ==
    LET r == range(ctx.selection)
    IN  IF r[1] = r[2] THEN ctx
        ELSE IF ~selection_on_rope(ctx) THEN Dead(ctx)
        ELSE apply_edits(ctx, <<Edit_delete(r[1], r[2])>>)

Paste(ctx, text) ==
    LET r == range(ctx.selection)
    IN  apply_edits(ctx, <<Edit_replace(r[1], r[2], text)>>)

\* the three case operations: the selected text replaced by its image
transform_selection(ctx, image) ==
    LET r == range(ctx.selection)
    IN  IF r[1] = r[2] THEN ctx
        ELSE IF ~selection_on_rope(ctx) THEN Dead(ctx)
        ELSE apply_edits(ctx, <<Edit_replace(r[1], r[2], image)>>)

UppercaseSelection(ctx) == transform_selection(ctx, to_uppercase(selected_text(ctx)))

LowercaseSelection(ctx) == transform_selection(ctx, to_lowercase(selected_text(ctx)))

ToggleCaseSelection(ctx) ==
    transform_selection(ctx,
        [i \in 1..Len(selected_text(ctx)) |->
            IF is_uppercase(selected_text(ctx)[i])
            THEN char_to_lowercase(selected_text(ctx)[i])
            ELSE char_to_uppercase(selected_text(ctx)[i])])

IndentSelection(ctx) ==
    LET r == range(ctx.selection)
    IN  IF ~selection_on_rope(ctx) THEN Dead(ctx)
        ELSE LET start_line == char_to_line(ctx.content, r[1])
                 end_line == char_to_line(ctx.content, r[2])
                 edits == [k \in 1..(end_line - start_line + 1) |->
                              Edit_insert(line_to_char(ctx.content, start_line + k - 1),
                                          <<" ", " ", " ", " ">>)]
             IN  apply_edits(ctx, edits)

\* chars_to_remove of UnindentSelection: one tab, or up to four spaces
chars_to_remove(line_text) ==
    IF line_text = <<>> THEN 0
    ELSE IF line_text[1] = "\t" THEN 1
    ELSE IF line_text[1] # " " THEN 0
    ELSE IF Len(line_text) < 2 \/ line_text[2] # " " THEN 1
    ELSE IF Len(line_text) < 3 \/ line_text[3] # " " THEN 2
    ELSE IF Len(line_text) < 4 \/ line_text[4] # " " THEN 3
    ELSE 4

RECURSIVE unindent_edits(_, _, _)
\* the edits pushed for the lines line_idx..end_line
unindent_edits(c, line_idx, end_line) ==
    IF line_idx > end_line THEN <<>>
    ELSE LET line_start == line_to_char(c, line_idx)
             n == chars_to_remove(line(c, line_idx))
         IN  (IF n > 0 THEN <<Edit_delete(line_start, line_start + n)>> ELSE <<>>)
                 \o unindent_edits(c, line_idx + 1, end_line)

UnindentSelection(ctx) ==
    LET r == range(ctx.selection)
    IN  IF ~selection_on_rope(ctx) THEN Dead(ctx)
        ELSE apply_edits(ctx, unindent_edits(ctx.content,
                                             char_to_line(ctx.content, r[1]),
                                             char_to_line(ctx.content, r[2])))

DuplicateLine(ctx) ==
    IF ~head_on_rope(ctx) THEN Dead(ctx)
    ELSE LET line_idx == char_to_line(ctx.content, ctx.selection.head)
             line_text == line(ctx.content, line_idx)
         IN  apply_edits(ctx, <<Edit_insert(line_to_char(ctx.content, line_idx),
                                            line_text)>>)

MoveLineUp(ctx) ==
    IF ~head_on_rope(ctx) THEN Dead(ctx)
    ELSE LET c == ctx.content
             line_idx == char_to_line(c, ctx.selection.head)
         IN  IF line_idx > 0
             THEN LET new_text == line(c, line_idx) \o line(c, line_idx - 1)
                  IN  apply_edits(ctx, <<Edit_replace(line_to_char(c, line_idx - 1),
                                                      head_line_next(ctx), new_text)>>)
             ELSE ctx

MoveLineDown(ctx) ==
    IF ~head_on_rope(ctx) THEN Dead(ctx)
    ELSE LET c == ctx.content
             line_idx == char_to_line(c, ctx.selection.head)
         IN  IF line_idx + 1 < len_lines(c)
             THEN LET new_text == line(c, line_idx + 1) \o line(c, line_idx)
                      next_line_end == IF line_idx + 2 < len_lines(c)
                                       THEN line_to_char(c, line_idx + 2)
                                       ELSE Len(c)
                  IN  apply_edits(ctx, <<Edit_replace(line_to_char(c, line_idx),
                                                      next_line_end, new_text)>>)
             ELSE ctx

InsertLineAbove(ctx) ==
    IF ~head_on_rope(ctx) THEN Dead(ctx)
    ELSE apply_edits(ctx, <<Edit_insert(head_line_start(ctx), <<"\n">>)>>)

InsertLineBelow(ctx) ==
    IF ~head_on_rope(ctx) THEN Dead(ctx)
    ELSE LET line_idx == char_to_line(ctx.content, ctx.selection.head)
             line_end == line_to_char(ctx.content, line_idx)
                             + Len(line(ctx.content, line_idx))
         IN  apply_edits(ctx, <<Edit_insert(line_end, <<"\n">>)>>)

FindNext(ctx, pattern) ==
    LET start == ctx.selection.head
    IN  IF ~is_char_boundary(ctx.content, start) THEN Dead(ctx)
        ELSE LET found == str_find(ctx.content, start, pattern)
             IN  IF found.some
                 THEN SelectTo(ctx, start + found.val,
                               start + found.val + len(pattern))
                 ELSE ctx

FindPrevious(ctx, pattern) ==
    LET end == ctx.selection.head
    IN  IF ~is_char_boundary(ctx.content, end) THEN Dead(ctx)
        ELSE LET found == str_rfind(ctx.content, end, pattern)
             IN  IF found.some
                 THEN SelectTo(ctx, found.val, found.val + len(pattern))
                 ELSE ctx

Replace(ctx, pattern, replacement) ==
    LET r == range(ctx.selection)
    IN  IF ~selection_on_rope(ctx) THEN Dead(ctx)
        ELSE IF selected_text(ctx) = pattern
        THEN apply_edits(ctx, <<Edit_replace(r[1], r[2], replacement)>>)
        ELSE ctx

ReplaceAll(ctx, pattern, replacement) ==
    LET new_content == str_replace(ctx.content, pattern, replacement)
    IN  IF ctx.content # new_content
        THEN apply_edits(ctx, <<Edit_replace(0, len(ctx.content), new_content)>>)
        ELSE ctx

\* SwitchMode and Exit leave the context alone
SwitchMode(ctx, target_mode) == ctx
Exit(ctx) == ctx

\* Save, and SaveAs (the buffer's path is not part of a context value)
Save(ctx) == [ctx EXCEPT !.modified = FALSE]
SaveAs(ctx, path) == [ctx EXCEPT !.modified = FALSE]

JumpToLine(ctx, line_number) ==
    LET line_idx == Min(saturating_sub(line_number, 1),
                        saturating_sub(len_lines(ctx.content), 1))
    IN  MoveTo(ctx, line_to_char(ctx.content, line_idx))

JumpToCharacter(ctx, pos) == MoveTo(ctx, Min(pos, Len(ctx.content)))

----------------------------------------------------------------------------
(* An operation value: the struct (kind) and its fields (args).            *)

Op(kind, args) == [kind |-> kind, args |-> args]

\* Operation::name(), by struct
operation_names ==
    [MoveLeft |-> "move_left", MoveRight |-> "move_right",
    MoveUp |-> "move_up", MoveDown |-> "move_down",
    MoveLineStart |-> "move_line_start", MoveLineEnd |-> "move_line_end",
    MoveWordForward |-> "move_word_forward",
    MoveWordBackward |-> "move_word_backward",
    MoveBigWordForward |-> "move_big_word_forward",
    MoveBigWordBackward |-> "move_big_word_backward",
    MoveDocumentStart |-> "move_document_start",
    MoveDocumentEnd |-> "move_document_end",
    MoveMatchingBracket |-> "move_matching_bracket",
    MoveParagraphForward |-> "move_paragraph_forward",
    MoveParagraphBackward |-> "move_paragraph_backward",
    SelectLeft |-> "select_left", SelectRight |-> "select_right",
    SelectUp |-> "select_up", SelectDown |-> "select_down",
    SelectWord |-> "select_word", SelectLine |-> "select_line",
    SelectAll |-> "select_all", SelectLineStart |-> "select_line_start",
    SelectLineEnd |-> "select_line_end", ClearSelection |-> "clear_selection",
    InsertChar |-> "insert_char", InsertString |-> "insert_string",
    InsertNewline |-> "insert_newline", InsertTab |-> "insert_tab",
    InsertSpaces |-> "insert_spaces", DeleteChar |-> "delete_char",
    Backspace |-> "backspace", DeleteWord |-> "delete_word",
    DeleteWordBackward |-> "delete_word_backward",
    DeleteLine |-> "delete_line",
    DeleteToLineStart |-> "delete_to_line_start",
    DeleteToLineEnd |-> "delete_to_line_end", Copy |-> "copy", Cut |-> "cut",
    Paste |-> "paste", UppercaseSelection |-> "uppercase_selection",
    LowercaseSelection |-> "lowercase_selection",
    ToggleCaseSelection |-> "toggle_case_selection",
    IndentSelection |-> "indent_selection",
    UnindentSelection |-> "unindent_selection",
    DuplicateLine |-> "duplicate_line", MoveLineUp |-> "move_line_up",
    MoveLineDown |-> "move_line_down",
    InsertLineAbove |-> "insert_line_above",
    InsertLineBelow |-> "insert_line_below", FindNext |-> "find_next",
    FindPrevious |-> "find_previous", Replace |-> "replace",
    ReplaceAll |-> "replace_all", Undo |-> "undo", Redo |-> "redo",
    SwitchMode |-> "switch_mode", Exit |-> "exit", Save |-> "save",
    SaveAs |-> "save_as", JumpToLine |-> "jump_to_line",
    JumpToCharacter |-> "jump_to_character"]

name(op) == operation_names[op.kind]

\* Operation::execute(): the context it leaves
execute(op, ctx) ==
    CASE op.kind = "MoveLeft" -> MoveLeft(ctx)
      [] op.kind = "MoveRight" -> MoveRight(ctx)
      [] op.kind = "MoveUp" -> MoveUp(ctx)
      [] op.kind = "MoveDown" -> MoveDown(ctx)
      [] op.kind = "MoveLineStart" -> MoveLineStart(ctx)
      [] op.kind = "MoveLineEnd" -> MoveLineEnd(ctx)
      [] op.kind = "MoveWordForward" -> MoveWordForward(ctx)
      [] op.kind = "MoveWordBackward" -> MoveWordBackward(ctx)
      [] op.kind = "MoveBigWordForward" -> MoveBigWordForward(ctx)
      [] op.kind = "MoveBigWordBackward" -> MoveBigWordBackward(ctx)
      [] op.kind = "MoveDocumentStart" -> MoveDocumentStart(ctx)
      [] op.kind = "MoveDocumentEnd" -> MoveDocumentEnd(ctx)
      [] op.kind = "MoveMatchingBracket" -> MoveMatchingBracket(ctx)
      [] op.kind = "MoveParagraphForward" -> MoveParagraphForward(ctx)
      [] op.kind = "MoveParagraphBackward" -> MoveParagraphBackward(ctx)
      [] op.kind = "SelectLeft" -> SelectLeft(ctx)
      [] op.kind = "SelectRight" -> SelectRight(ctx)
      [] op.kind = "SelectUp" -> SelectUp(ctx)
      [] op.kind = "SelectDown" -> SelectDown(ctx)
      [] op.kind = "SelectWord" -> SelectWord(ctx)
      [] op.kind = "SelectLine" -> SelectLine(ctx)
      [] op.kind = "SelectAll" -> SelectAll(ctx)
      [] op.kind = "SelectLineStart" -> SelectLineStart(ctx)
      [] op.kind = "SelectLineEnd" -> SelectLineEnd(ctx)
      [] op.kind = "ClearSelection" -> ClearSelection(ctx)
      [] op.kind = "InsertChar" -> InsertChar(ctx, op.args[1])
      [] op.kind = "InsertString" -> InsertString(ctx, op.args[1])
      [] op.kind = "InsertNewline" -> InsertNewline(ctx)
      [] op.kind = "InsertTab" -> InsertTab(ctx)
      [] op.kind = "InsertSpaces" -> InsertSpaces(ctx, op.args[1])
      [] op.kind = "DeleteChar" -> DeleteChar(ctx)
      [] op.kind = "Backspace" -> Backspace(ctx)
      [] op.kind = "DeleteWord" -> DeleteWord(ctx)
      [] op.kind = "DeleteWordBackward" -> DeleteWordBackward(ctx)
      [] op.kind = "DeleteLine" -> DeleteLine(ctx)
      [] op.kind = "DeleteToLineStart" -> DeleteToLineStart(ctx)
      [] op.kind = "DeleteToLineEnd" -> DeleteToLineEnd(ctx)
      [] op.kind = "Copy" -> Copy(ctx)
      [] op.kind = "Cut" -> Cut(ctx)
      [] op.kind = "Paste" -> Paste(ctx, op.args[1])
      [] op.kind = "UppercaseSelection" -> UppercaseSelection(ctx)
      [] op.kind = "LowercaseSelection" -> LowercaseSelection(ctx)
      [] op.kind = "ToggleCaseSelection" -> ToggleCaseSelection(ctx)
      [] op.kind = "IndentSelection" -> IndentSelection(ctx)
      [] op.kind = "UnindentSelection" -> UnindentSelection(ctx)
      [] op.kind = "DuplicateLine" -> DuplicateLine(ctx)
      [] op.kind = "MoveLineUp" -> MoveLineUp(ctx)
      [] op.kind = "MoveLineDown" -> MoveLineDown(ctx)
      [] op.kind = "InsertLineAbove" -> InsertLineAbove(ctx)
      [] op.kind = "InsertLineBelow" -> InsertLineBelow(ctx)
      [] op.kind = "FindNext" -> FindNext(ctx, op.args[1])
      [] op.kind = "FindPrevious" -> FindPrevious(ctx, op.args[1])
      [] op.kind = "Replace" -> Replace(ctx, op.args[1], op.args[2])
      [] op.kind = "ReplaceAll" -> ReplaceAll(ctx, op.args[1], op.args[2])
      [] op.kind = "Undo" -> Undo(ctx)
      [] op.kind = "Redo" -> Redo(ctx)
      [] op.kind = "SwitchMode" -> SwitchMode(ctx, op.args[1])
      [] op.kind = "Exit" -> Exit(ctx)
      [] op.kind = "Save" -> Save(ctx)
      [] op.kind = "SaveAs" -> SaveAs(ctx, op.args[1])
      [] op.kind = "JumpToLine" -> JumpToLine(ctx, op.args[1])
      [] op.kind = "JumpToCharacter" -> JumpToCharacter(ctx, op.args[1])

\* OperationResult: Continue, SwitchMode(mode), Exit
Continue == <<"Continue">>
SwitchModeResult(mode) == <<"SwitchMode", mode>>
ExitResult == <<"Exit">>

\* the value execute() returns
result(op) ==
    CASE op.kind = "SwitchMode" -> SwitchModeResult(op.args[1])
      [] op.kind = "Exit" -> ExitResult
      [] OTHER -> Continue

----------------------------------------------------------------------------
(* gauchito-core/src/registry.rs.  A parameter string is a sequence of     *)
(* characters; a factory returns Ok(operation) or Err(message).            *)

Ok(op) == [ok |-> TRUE, op |-> op]
Err(message) == [ok |-> FALSE, err |-> message]

digit_value(ch) ==
    CASE ch = "0" -> 0 [] ch = "1" -> 1 [] ch = "2" -> 2 [] ch = "3" -> 3
      [] ch = "4" -> 4 [] ch = "5" -> 5 [] ch = "6" -> 6 [] ch = "7" -> 7
      [] ch = "8" -> 8 [] ch = "9" -> 9 [] OTHER -> -1

RECURSIVE digits_value(_, _)
\* the number written by the digits, after the value acc of those before
digits_value(p, acc) ==
    IF p = <<>> THEN acc
    ELSE digits_value(Tail(p), 10 * acc + digit_value(Head(p)))

\* str::parse::<usize>().ok(): decimal digits after an optional "+"
parse_usize(p) ==
    LET digits == IF p # <<>> /\ Head(p) = "+" THEN Tail(p) ELSE p
    IN  IF digits # <<>> /\ \A i \in 1..Len(digits) : digit_value(digits[i]) >= 0
        THEN Some(digits_value(digits, 0))
        ELSE None

starts_with(p, prefix) ==
    Len(p) >= Len(prefix) /\ SubSeq(p, 1, Len(prefix)) = prefix

\* str::split_once: the parts around the first occurrence of the delimiter
split_once(p, delimiter) ==
    LET at == {j \in 0..Len(p) : starts_with(SubSeq(p, j + 1, Len(p)), delimiter)}
    IN  IF at = {} THEN None
        ELSE LET j == CHOOSE j \in at : \A k \in at : j <= k
             IN  Some(<<SubSeq(p, 1, j), SubSeq(p, j + Len(delimiter) + 1, Len(p))>>)

\* " with "
with_delimiter == <<" ", "w", "i", "t", "h", " ">>

\* the registrations whose factory ignores the parameter: name :> struct
unit_factories ==
    ("move_left" :> "MoveLeft") @@ ("move_right" :> "MoveRight") @@
    ("move_up" :> "MoveUp") @@ ("move_down" :> "MoveDown") @@
    ("move_line_start" :> "MoveLineStart") @@
    ("move_line_end" :> "MoveLineEnd") @@
    ("move_word_forward" :> "MoveWordForward") @@
    ("move_word_backward" :> "MoveWordBackward") @@
    ("move_big_word_forward" :> "MoveBigWordForward") @@
    ("move_big_word_backward" :> "MoveBigWordBackward") @@
    ("move_document_start" :> "MoveDocumentStart") @@
    ("move_document_end" :> "MoveDocumentEnd") @@
    ("move_matching_bracket" :> "MoveMatchingBracket") @@
    ("move_paragraph_forward" :> "MoveParagraphForward") @@
    ("move_paragraph_backward" :> "MoveParagraphBackward") @@
    ("select_left" :> "SelectLeft") @@ ("select_right" :> "SelectRight") @@
    ("select_up" :> "SelectUp") @@ ("select_down" :> "SelectDown") @@
    ("select_word" :> "SelectWord") @@ ("select_line" :> "SelectLine") @@
    ("select_all" :> "SelectAll") @@
    ("select_line_start" :> "SelectLineStart") @@
    ("select_line_end" :> "SelectLineEnd") @@
    ("clear_selection" :> "ClearSelection") @@
    ("insert_newline" :> "InsertNewline") @@ ("insert_tab" :> "InsertTab") @@
    ("delete_char" :> "DeleteChar") @@ ("backspace" :> "Backspace") @@
    ("delete_word" :> "DeleteWord") @@
    ("delete_word_backward" :> "DeleteWordBackward") @@
    ("delete_line" :> "DeleteLine") @@
    ("delete_to_line_start" :> "DeleteToLineStart") @@
    ("delete_to_line_end" :> "DeleteToLineEnd") @@ ("copy" :> "Copy") @@
    ("cut" :> "Cut") @@ ("uppercase_selection" :> "UppercaseSelection") @@
    ("lowercase_selection" :> "LowercaseSelection") @@
    ("toggle_case_selection" :> "ToggleCaseSelection") @@
    ("indent_selection" :> "IndentSelection") @@
    ("unindent_selection" :> "UnindentSelection") @@
    ("duplicate_line" :> "DuplicateLine") @@
    ("move_line_up" :> "MoveLineUp") @@
    ("move_line_down" :> "MoveLineDown") @@
    ("insert_line_above" :> "InsertLineAbove") @@
    ("insert_line_below" :> "InsertLineBelow") @@ ("undo" :> "Undo") @@
    ("redo" :> "Redo") @@ ("exit" :> "Exit") @@ ("save" :> "Save")

\* an alias table with the targets of "u" and "r" exchanged
alias_factories_exchanged ==
    ("h" :> "MoveLeft") @@ ("j" :> "MoveDown") @@ ("k" :> "MoveUp") @@
    ("l" :> "MoveRight") @@ ("w" :> "MoveWordForward") @@
    ("b" :> "MoveWordBackward") @@ ("W" :> "MoveBigWordForward") @@
    ("B" :> "MoveBigWordBackward") @@ ("0" :> "MoveLineStart") @@
    ("$" :> "MoveLineEnd") @@ ("gg" :> "MoveDocumentStart") @@
    ("G" :> "MoveDocumentEnd") @@ ("x" :> "DeleteChar") @@
    ("X" :> "Backspace") @@ ("dd" :> "DeleteLine") @@ ("yy" :> "Copy") @@
    ("u" :> "Redo") @@ ("r" :> "Undo") @@ ("o" :> "InsertLineBelow") @@
    ("O" :> "InsertLineAbove")

\* the convenience aliases whose factory ignores the parameter
alias_factories ==
    ("h" :> "MoveLeft") @@ ("j" :> "MoveDown") @@ ("k" :> "MoveUp") @@
    ("l" :> "MoveRight") @@ ("w" :> "MoveWordForward") @@
    ("b" :> "MoveWordBackward") @@ ("W" :> "MoveBigWordForward") @@
    ("B" :> "MoveBigWordBackward") @@ ("0" :> "MoveLineStart") @@
    ("$" :> "MoveLineEnd") @@ ("gg" :> "MoveDocumentStart") @@
    ("G" :> "MoveDocumentEnd") @@ ("x" :> "DeleteChar") @@
    ("X" :> "Backspace") @@ ("dd" :> "DeleteLine") @@ ("yy" :> "Copy") @@
    ("u" :> "Undo") @@ ("r" :> "Redo") @@ ("o" :> "InsertLineBelow") @@
    ("O" :> "InsertLineAbove")

\* the registrations whose factory reads the parameter
parameter_factories ==
    {"insert_char", "insert_string", "insert_spaces", "paste", "find_next",
     "find_previous", "replace", "replace_all", "switch_mode", "save_as",
     "jump_to_line", "jump_to_character", "p", ":"}

\* the keys of OperationRegistry.factories after register_defaults
factories ==
    DOMAIN unit_factories \cup DOMAIN alias_factories \cup parameter_factories

\* an insert_char factory that takes the first character of any parameter
insert_char_factory_first_char(params) ==
    IF params.some /\ Len(params.val) >= 1
    THEN Ok(Op("InsertChar", <<params.val[1]>>))
    ELSE Err(<<"insert_char requires exactly one character">>)

\* the closure registered as "insert_char"; p.chars().count() is Len
insert_char_factory(params) ==
    IF params.some /\ Len(params.val) = 1
    THEN Ok(Op("InsertChar", <<params.val[1]>>))
    ELSE Err(<<"insert_char requires exactly one character">>)

\* the closure registered under the name, called with Option<&str>
factory(registered, params) ==
    CASE registered \in DOMAIN unit_factories ->
            Ok(Op(unit_factories[registered], <<>>))
      [] registered \in DOMAIN alias_factories ->
            Ok(Op(alias_factories[registered], <<>>))
      [] registered = "insert_char" -> insert_char_factory(params)
      [] registered = "insert_string" ->
            IF params.some /\ params.val # <<>>
            THEN Ok(Op("InsertString", <<params.val>>))
            ELSE Err(<<"insert_string requires text parameter">>)
      [] registered = "insert_spaces" ->
            LET parsed == IF params.some THEN parse_usize(params.val) ELSE None
            IN  Ok(Op("InsertSpaces", <<IF parsed.some THEN parsed.val ELSE 1>>))
      [] registered = "paste" ->
            Ok(Op("Paste", <<IF params.some THEN params.val ELSE <<>> >>))
      [] registered = "p" ->
            Ok(Op("Paste", <<IF params.some THEN params.val ELSE <<>> >>))
      [] registered = "find_next" ->
            IF params.some /\ params.val # <<>>
            THEN Ok(Op("FindNext", <<params.val>>))
            ELSE Err(<<"find_next requires search pattern">>)
      [] registered = "find_previous" ->
            IF params.some /\ params.val # <<>>
            THEN Ok(Op("FindPrevious", <<params.val>>))
            ELSE Err(<<"find_previous requires search pattern">>)
      [] registered = "replace" ->
            IF ~params.some THEN Err(<<"replace requires pattern and replacement">>)
            ELSE LET parts == split_once(params.val, with_delimiter)
                 IN  IF parts.some THEN Ok(Op("Replace", parts.val))
                     ELSE Err(<<"replace requires format: 'pattern with replacement'">>)
      [] registered = "replace_all" ->
            IF ~params.some
            THEN Err(<<"replace_all requires pattern and replacement">>)
            ELSE LET parts == split_once(params.val, with_delimiter)
                 IN  IF parts.some THEN Ok(Op("ReplaceAll", parts.val))
                     ELSE Err(<<"replace_all requires format: 'pattern with replacement'">>)
      [] registered = "switch_mode" ->
            IF params.some /\ params.val # <<>>
            THEN Ok(Op("SwitchMode", <<params.val>>))
            ELSE Err(<<"switch_mode requires a target mode parameter">>)
      [] registered = "save_as" ->
            IF params.some /\ params.val # <<>>
            THEN Ok(Op("SaveAs", <<params.val>>))
            ELSE Err(<<"save_as requires file path parameter">>)
      [] registered = "jump_to_line" ->
            IF ~params.some THEN Err(<<"jump_to_line requires line number parameter">>)
            ELSE IF parse_usize(params.val).some
            THEN Ok(Op("JumpToLine", <<parse_usize(params.val).val>>))
            ELSE Err(<<"jump_to_line requires valid line number">>)
      [] registered = "jump_to_character" ->
            IF ~params.some
            THEN Err(<<"jump_to_character requires position parameter">>)
            ELSE IF parse_usize(params.val).some
            THEN Ok(Op("JumpToCharacter", <<parse_usize(params.val).val>>))
            ELSE Err(<<"jump_to_character requires valid character position">>)
      [] registered = ":" ->
            IF ~params.some THEN Err(<<"Command mode requires parameter">>)
            ELSE IF params.val = <<"q">> THEN Ok(Op("Exit", <<>>))
            ELSE IF params.val = <<"w">> THEN Ok(Op("Save", <<>>))
            ELSE IF params.val = <<"w", "q">> THEN Ok(Op("Save", <<>>))
            ELSE IF starts_with(params.val, <<"w", " ">>)
            THEN Ok(Op("SaveAs", <<SubSeq(params.val, 3, Len(params.val))>>))
            ELSE Err(<<"Unknown command: :", params.val>>)

\* the wrapper OperationRegistry::register puts around a factory
register(registered, params) ==
    IF params = <<>> THEN factory(registered, None)
    ELSE factory(registered, Some(params))

\* OperationRegistry::create
create(registered, params) ==
    IF registered \in factories THEN register(registered, params)
    ELSE Err(<<"Unknown operation: ", registered>>)

\* a lookup that finds every name
has_operation_any(registered) == TRUE

\* OperationRegistry::has_operation
has_operation(registered) == registered \in factories

----------------------------------------------------------------------------
(* A host executing operations on one Context, one at a time.              *)

Ctx == Context(content, modified, selection, undo_stack, redo_stack, panicked)

\* the buffer and selection a host remembers before the first undo of a run
\* of undo, redo pairs
Snapshot == [content |-> content, selection |-> selection]

\* the outcome of an execute() that panicked: no OperationResult
Unwound == <<"panic">>

\* execute() replaces the context by next and returns Continue; the
\* operation is named op
Exec(op, next) ==
    /\ pc = "editing" /\ ~panicked
    /\ content' = next.content
    /\ modified' = next.modified
    /\ selection' = next.selection
    /\ undo_stack' = next.undo_stack
    /\ redo_stack' = next.redo_stack
    /\ panicked' = next.panicked
    /\ prior' = StackSizes
    /\ last' = Call(op, 0)
    /\ ret' = IF next.panicked THEN Unwound ELSE Continue
    /\ UNCHANGED <<pc, txn>>
    /\ UNCHANGED text_objects

\* an edit the model lets the host make: the buffer and the undo stack stay
\* within the bounds
Editable(next) ==
    Len(undo_stack) < MaxUndo /\ Len(next.content) <= MaxCtxLen

ExecMoveLeft == Exec("move_left", MoveLeft(Ctx)) /\ pre' = None
ExecMoveRight == Exec("move_right", MoveRight(Ctx)) /\ pre' = None
ExecSelectLeft == Exec("select_left", SelectLeft(Ctx)) /\ pre' = None
ExecSelectRight == Exec("select_right", SelectRight(Ctx)) /\ pre' = None

ExecInsertChar ==
    \E ch \in Alphabet :
        /\ Editable(InsertChar(Ctx, ch))
        /\ Exec("insert_char", InsertChar(Ctx, ch))
        /\ pre' = None

ExecDeleteChar ==
    /\ Editable(DeleteChar(Ctx))
    /\ Exec("delete_char", DeleteChar(Ctx))
    /\ pre' = None

ExecBackspace ==
    /\ Editable(Backspace(Ctx))
    /\ Exec("backspace", Backspace(Ctx))
    /\ pre' = None

ExecUndo ==
    /\ Exec("undo", Undo(Ctx))
    /\ pre' = IF undo_stack = <<>> THEN None
              ELSE IF last.op = "redo" /\ pre.some THEN pre
              ELSE Some(Snapshot)

ExecRedo ==
    /\ Exec("redo", Redo(Ctx))
    /\ pre' = IF redo_stack # <<>> /\ last.op = "undo" THEN pre ELSE None

\* Context::with_content
InitCtx ==
    /\ content \in Texts(MaxCtxLen)
    /\ pc = "editing"
    /\ InitCommon

NextCtx ==
    \/ ExecMoveLeft
    \/ ExecMoveRight
    \/ ExecSelectLeft
    \/ ExecSelectRight
    \/ ExecInsertChar
    \/ ExecDeleteChar
    \/ ExecBackspace
    \/ ExecUndo
    \/ ExecRedo

SpecCtx == InitCtx /\ [][NextCtx]_vars

----------------------------------------------------------------------------
(* Every operation executed once on a context, then undone: the context is *)
(* drawn in the initial state, the operation when it executes.             *)

\* the characters of the buffers operations are executed on
OpAlphabet == {"a", "é", " ", "\n", "(", ")"}

\* the operations without fields
UnitOps == {Op(unit_factories[n], <<>>) : n \in DOMAIN unit_factories}

\* the operations a host executes
OpInputs ==
    UnitOps
    \cup {Op("InsertChar", <<ch>>) : ch \in {"a", "é"}}
    \cup {Op(kind, <<text>>) : kind \in {"InsertString", "Paste"},
                               text \in {<<"a", "b">>, <<"é">>}}
    \cup {Op("Paste", << <<>> >>)}
    \cup {Op("InsertSpaces", <<count>>) : count \in 0..2}
    \cup {Op(kind, <<pattern>>) : kind \in {"FindNext", "FindPrevious"},
                                  pattern \in {<<"a">>, <<"é">>, <<"b">>, <<")">>}}
    \cup {Op(kind, <<pattern, <<"b">> >>) :
              kind \in {"Replace", "ReplaceAll"},
              pattern \in {<<>>, <<"a">>, <<"é">>, <<"b">>}}
    \cup {Op("SwitchMode", << <<"i">> >>), Op("SaveAs", << <<"f">> >>)}
    \cup {Op(kind, <<n>>) : kind \in {"JumpToLine", "JumpToCharacter"}, n \in 0..2}

\* the context becomes next
Becomes(next) ==
    /\ content' = next.content
    /\ modified' = next.modified
    /\ selection' = next.selection
    /\ undo_stack' = next.undo_stack
    /\ redo_stack' = next.redo_stack
    /\ panicked' = next.panicked
    /\ UNCHANGED text_objects

\* Context::with_content, and the selection some moves have left
InitOps ==
    /\ content \in TextsOver(OpAlphabet, MaxOpLen)
    /\ selection \in {Selection(a, h) : a, h \in 0..Len(content)}
    /\ pc = "ready"
    /\ modified = FALSE
    /\ undo_stack = <<>>
    /\ redo_stack = <<>>
    /\ txn = <<>>
    /\ ret = <<>>
    /\ pre = None
    /\ prior = [undo |-> 0, redo |-> 0]
    /\ last = Call("new", 0)
    /\ panicked = FALSE
    /\ text_objects = with_defaults

\* let result = operation.execute(&mut context);
ExecuteOp ==
    /\ pc = "ready"
    /\ \E op \in OpInputs :
          /\ Becomes(execute(op, Ctx))
          /\ ret' = IF execute(op, Ctx).panicked THEN Unwound ELSE result(op)
          /\ txn' = op
          /\ last' = Call(name(op), 0)
    /\ pre' = Some(Snapshot)
    /\ prior' = StackSizes
    /\ pc' = "executed"

\* the undo operation executed next
ExecuteUndo ==
    /\ pc = "executed" /\ ~panicked
    /\ Becomes(Undo(Ctx))
    /\ ret' = IF Undo(Ctx).panicked THEN Unwound ELSE Continue
    /\ prior' = StackSizes
    /\ last' = Call("undo", 0)
    /\ pc' = "undone"
    /\ UNCHANGED <<txn, pre>>

NextOps == ExecuteOp \/ ExecuteUndo

SpecOps == InitOps /\ [][NextOps]_vars

----------------------------------------------------------------------------
(* A command typed at a context: execute_operation of main.rs creates the  *)
(* operation from its name and parameter string and executes it.           *)

\* the names typed: the registered ones and some that are not
CommandNames == factories \cup {"bogus", "", "H", "move", "insert_chars"}

\* the parameter strings typed
CommandParams ==
    {<<>>, <<"a">>, <<"é">>, <<"a", "b">>, <<"2">>, <<"+", "1">>, <<"-", "1">>,
     <<"q">>, <<"w">>, <<"w", "q">>, <<"w", " ", "f">>,
     <<"a", " ", "w", "i", "t", "h", " ", "b">>,
     <<" ", "w", "i", "t", "h", " ">>}

InitRegistry ==
    /\ txn \in [name : CommandNames, params : CommandParams]
    /\ content \in TextsOver(OpAlphabet, MaxCmdLen)
    /\ \E h \in 0..Len(content) : selection = Selection(h, h)
    /\ pc = "command"
    /\ modified = FALSE
    /\ undo_stack = <<>>
    /\ redo_stack = <<>>
    /\ ret = <<>>
    /\ pre = None
    /\ prior = [undo |-> 0, redo |-> 0]
    /\ last = Call("new", 0)
    /\ panicked = FALSE
    /\ text_objects = with_defaults

\* registry.create(name, params)
Create ==
    /\ pc = "command"
    /\ ret' = create(txn.name, txn.params)
    /\ pc' = "created"
    /\ last' = Call("create", 0)
    /\ UNCHANGED <<content, modified, selection, undo_stack, redo_stack, txn,
                   pre, prior, panicked>>
    /\ UNCHANGED text_objects

\* Ok(operation) => operation.execute(context)
ExecuteCreated ==
    /\ pc = "created" /\ ret.ok
    /\ Becomes(execute(ret.op, Ctx))
    /\ ret' = IF execute(ret.op, Ctx).panicked THEN Unwound ELSE result(ret.op)
    /\ txn' = [name |-> txn.name, params |-> txn.params, op |-> ret.op]
    /\ last' = Call(name(ret.op), 0)
    /\ pre' = Some(Snapshot)
    /\ prior' = StackSizes
    /\ pc' = "executed"

NextRegistry == Create \/ ExecuteCreated

SpecRegistry == InitRegistry /\ [][NextRegistry]_vars

----------------------------------------------------------------------------
(* textobjects/finders/basic.rs: BasicTextObjectFinder.  The navigator is  *)
(* the buffer content; find_at returns before any scan when pos is not a   *)
(* character of the buffer, so char_at(current) is Some in every loop.     *)

TextRange(start, end) == [start |-> start, end |-> end]

TextObject(kind, mode) == [kind |-> kind, selection |-> mode]

\* Buffer as TextNavigator: char_at
char_at(c, pos) == IF pos < Len(c) THEN Some(c[pos + 1]) ELSE None

word_start(c, pos) ==
    scan_backward(c, scan_backward(c, pos, "whitespace"), "word")

word_end(c, pos) ==
    scan_forward(c, scan_forward(c, pos, "whitespace"), "word")

big_word_start(c, pos) ==
    scan_backward(c, scan_backward(c, pos, "whitespace"), "big_word")

big_word_end(c, pos) ==
    scan_forward(c, scan_forward(c, pos, "whitespace"), "big_word")

\* line_chars(line).all(is_whitespace) of the lines above, then line_to_char
paragraph_start(c, pos) == line_to_char(c, paragraph_up(c, char_to_line(c, pos)))

paragraph_end(c, pos) ==
    LET current_line == paragraph_down(c, char_to_line(c, pos))
    IN  IF current_line + 1 < len_lines(c) THEN line_to_char(c, current_line + 1)
        ELSE Len(c)

RECURSIVE backwards_from(_, _, _, _, _)
\* for i in (0..=pos).rev(), with the signed counter count
backwards_from(c, i, count, open, close) ==
    IF i < 0 THEN None
    ELSE LET ch == char_at(c, i)
         IN  IF ch.some /\ ch.val = close
             THEN backwards_from(c, i - 1, count + 1, open, close)
             ELSE IF ch.some /\ ch.val = open
             THEN IF count = 0 THEN Some(i)
                  ELSE backwards_from(c, i - 1, count - 1, open, close)
             ELSE backwards_from(c, i - 1, count, open, close)

RECURSIVE backwards_to_nearest(_, _, _)
\* a backward scan that stops at the nearest open delimiter
backwards_to_nearest(c, i, open) ==
    IF i < 0 THEN None
    ELSE IF char_at(c, i) = Some(open) THEN Some(i)
    ELSE backwards_to_nearest(c, i - 1, open)

\* a find_bracket_backwards without the nesting counter
find_bracket_backwards_nearest(c, pos, open, close) ==
    backwards_to_nearest(c, pos, open)

find_bracket_backwards(c, pos, open, close) ==
    backwards_from(c, pos, 0, open, close)

RECURSIVE forward_from(_, _, _, _, _)
\* for i in (start + 1)..len, with the counter count
forward_from(c, i, count, open, close) ==
    IF i >= Len(c) THEN None
    ELSE LET ch == char_at(c, i)
         IN  IF ch.some /\ ch.val = open
             THEN forward_from(c, i + 1, count + 1, open, close)
             ELSE IF ch.some /\ ch.val = close
             THEN IF count - 1 = 0 THEN Some(i)
                  ELSE forward_from(c, i + 1, count - 1, open, close)
             ELSE forward_from(c, i + 1, count, open, close)

\* a forward scan that takes the first close delimiter, whatever the nesting
find_matching_bracket_forward_first_close(c, start, open, close) ==
    IF \E i \in (start + 1)..(Len(c) - 1) : c[i + 1] = close
    THEN Some(CHOOSE i \in (start + 1)..(Len(c) - 1) :
                  /\ c[i + 1] = close
                  /\ \A k \in (start + 1)..(i - 1) : c[k + 1] # close)
    ELSE None

find_matching_bracket_forward(c, start, open, close) ==
    forward_from(c, start + 1, 1, open, close)

\* a bracket range that leaves the close delimiter out in Around mode
find_bracket_range_without_close(c, pos, open, close, mode) ==
    LET open_pos == find_bracket_backwards(c, pos, open, close)
    IN  IF ~open_pos.some THEN None
        ELSE LET close_pos ==
                     find_matching_bracket_forward(c, open_pos.val, open, close)
             IN  IF ~close_pos.some THEN None
                 ELSE Some(TextRange(open_pos.val, close_pos.val))

find_bracket_range(c, pos, open, close, mode) ==
    LET open_pos == find_bracket_backwards(c, pos, open, close)
    IN  IF ~open_pos.some THEN None
        ELSE LET close_pos ==
                     find_matching_bracket_forward(c, open_pos.val, open, close)
             IN  IF ~close_pos.some THEN None
                 ELSE IF mode = "Inner"
                 THEN IF close_pos.val > open_pos.val + 1
                      THEN Some(TextRange(open_pos.val + 1, close_pos.val))
                      ELSE Some(TextRange(open_pos.val, open_pos.val))
                 ELSE Some(TextRange(open_pos.val, close_pos.val + 1))

\* BasicTextObjectFinder::find_at
find_at(c, pos, text_obj) ==
    IF pos >= Len(c) THEN None
    ELSE CASE text_obj.kind = "Word" ->
                  IF word_start(c, pos) < word_end(c, pos)
                  THEN Some(TextRange(word_start(c, pos), word_end(c, pos)))
                  ELSE None
           [] text_obj.kind = "BigWord" ->
                  IF big_word_start(c, pos) < big_word_end(c, pos)
                  THEN Some(TextRange(big_word_start(c, pos), big_word_end(c, pos)))
                  ELSE None
           [] text_obj.kind = "Line" ->
                  LET line_idx == char_to_line(c, pos)
                  IN  Some(TextRange(line_to_char(c, line_idx),
                                     IF line_idx + 1 < len_lines(c)
                                     THEN line_to_char(c, line_idx + 1)
                                     ELSE Len(c)))
           [] text_obj.kind = "Paragraph" ->
                  Some(TextRange(paragraph_start(c, pos), paragraph_end(c, pos)))
           [] text_obj.kind = "Parentheses" ->
                  find_bracket_range(c, pos, "(", ")", text_obj.selection)
           [] text_obj.kind = "Brackets" ->
                  find_bracket_range(c, pos, "[", "]", text_obj.selection)
           [] text_obj.kind = "Braces" ->
                  find_bracket_range(c, pos, "{", "}", text_obj.selection)
           [] OTHER -> None

RECURSIVE probe_forward(_, _, _, _)
\* for i in from..len_chars: the first find_at range that starts after bound
probe_forward(c, i, bound, text_obj) ==
    IF i >= Len(c) THEN None
    ELSE LET found == find_at(c, i, text_obj)
         IN  IF found.some /\ found.val.start > bound THEN found
             ELSE probe_forward(c, i + 1, bound, text_obj)

\* a find_next that also takes a range starting at pos
find_next_from_pos(c, pos, text_obj) ==
    probe_forward(c, pos + 1, pos - 1, text_obj)

\* BasicTextObjectFinder::find_next
find_next(c, pos, text_obj) == probe_forward(c, pos + 1, pos, text_obj)

RECURSIVE probe_backward(_, _, _, _)
\* for i in (0..pos).rev(): the first find_at range that ends at or before pos
probe_backward(c, i, pos, text_obj) ==
    IF i < 0 THEN None
    ELSE LET found == find_at(c, i, text_obj)
         IN  IF found.some /\ found.val.end <= pos THEN found
             ELSE probe_backward(c, i - 1, pos, text_obj)

\* BasicTextObjectFinder::find_prev
find_prev(c, pos, text_obj) == probe_backward(c, pos - 1, pos, text_obj)

\* TreeSitterTextObjectFinder::find_at, find_next and find_prev
TreeSitter_find(c, pos, text_obj) == None

\* the find_at, find_next or find_prev of a finder; the caller's finder
\* answers every request with the empty range at pos
finder_find(finder, method, c, pos, text_obj) ==
    CASE finder = "TreeSitter" -> TreeSitter_find(c, pos, text_obj)
      [] finder = "Custom" -> Some(TextRange(pos, pos))
      [] finder = "Basic" ->
             CASE method = "find_at" -> find_at(c, pos, text_obj)
               [] method = "find_next" -> find_next(c, pos, text_obj)
               [] method = "find_prev" -> find_prev(c, pos, text_obj)

\* TextObjectRegistry::find_capable_finder
find_capable_finder(registry, text_obj) ==
    LET cache == registry.capability_cache
        finders == registry.finders
        capable == {i \in 1..Len(finders) : can_handle(finders[i], text_obj)}
    IN  IF text_obj.kind \in DOMAIN cache
        THEN IF cache[text_obj.kind] < Len(finders)
             THEN Some(finders[cache[text_obj.kind] + 1])
             ELSE None
        ELSE IF capable = {} THEN None
        ELSE Some(finders[CHOOSE i \in capable : \A k \in capable : i <= k])

\* TextObjectRegistry::find_at, find_next and find_prev
registry_find(registry, method, c, pos, text_obj) ==
    LET finder == find_capable_finder(registry, text_obj)
    IN  IF ~finder.some THEN None
        ELSE finder_find(finder.val, method, c, pos, text_obj)

\* a supports that answers yes for every kind
supports_every_kind(registry, kind) == TRUE

\* TextObjectRegistry::supports
supports(registry, kind) ==
    \/ kind \in DOMAIN registry.capability_cache
    \/ \E i \in 1..Len(registry.finders) :
           kind \in supported_kinds(registry.finders[i])

----------------------------------------------------------------------------
(* A host that builds a registry, one register_finder at a time, and       *)
(* resolves text objects through it.                                       *)

MaxFinders == 3   \* most finders registered in one registry

Finders == {"Basic", "TreeSitter", "Custom"}

Methods == {"find_at", "find_next", "find_prev"}

\* the objects the constructors of TextObject build, and one object of every
\* other kind
TextObjects ==
    {TextObject(kind, "Around") : kind \in TextObjectKinds}
    \cup {TextObject(kind, "Inner") :
              kind \in {"Word", "Parentheses", "Brackets", "Braces", "Function",
                        "Class"}}

Request(method, pos, text_obj) ==
    [op |-> method, pos |-> pos, text_obj |-> text_obj]

InitResolver ==
    /\ content \in TextsOver({"a", " "}, 1)
    /\ text_objects = TextObjectRegistry
    /\ pc = "registry"
    /\ modified = FALSE
    /\ undo_stack = <<>>
    /\ redo_stack = <<>>
    /\ selection = [anchor |-> 0, head |-> 0]
    /\ txn = <<>>
    /\ ret = <<>>
    /\ pre = None
    /\ prior = [undo |-> 0, redo |-> 0]
    /\ last = Call("new", 0)
    /\ panicked = FALSE

RegisterFinder ==
    /\ pc = "registry" /\ Len(text_objects.finders) < MaxFinders
    /\ \E finder \in Finders :
          /\ pre' = Some(text_objects)
          /\ text_objects' = register_finder(text_objects, finder)
          /\ txn' = finder
    /\ last' = Call("register_finder", Len(text_objects.finders))
    /\ ret' = <<>>
    /\ UNCHANGED <<content, modified, undo_stack, redo_stack, selection, pc,
                   prior, panicked>>

Resolve ==
    /\ pc = "registry"
    /\ \E method \in Methods, pos \in 0..Len(content), text_obj \in TextObjects :
          /\ ret' = registry_find(text_objects, method, content, pos, text_obj)
          /\ txn' = Request(method, pos, text_obj)
          /\ last' = Call(method, 0)
    /\ pc' = "resolved"
    /\ UNCHANGED <<content, modified, undo_stack, redo_stack, selection, pre,
                   prior, panicked, text_objects>>

NextResolver == RegisterFinder \/ Resolve

SpecResolver == InitResolver /\ [][NextResolver]_vars

----------------------------------------------------------------------------
(* A host that resolves text objects and matching brackets on a buffer     *)
(* with the default registry (Buffer::find_text_object_at, _next, _prev).  *)

MaxObjLen == 3   \* longest buffer, the examples apart, an object is resolved in

ObjAlphabet == {"a", " ", "\n", "(", ")", "[", "]"}

\* the buffers of the examples
ExampleTexts ==
    {<<" ", " ", "f", "o", "o", ".", "b", "a", "r", " ", " ">>,
     <<"(", "a", "(", "b", ")", "c", ")">>,
     <<"a", "\n", "b", "\n", "\n", "c">>,
     <<"(", "(", ")", "a", ")">>,
     <<"[", "(", "]", ")">>}

InitFind ==
    /\ content \in TextsOver(ObjAlphabet, MaxObjLen) \cup ExampleTexts
    /\ pc = "ready"
    /\ modified = FALSE
    /\ undo_stack = <<>>
    /\ redo_stack = <<>>
    /\ selection = [anchor |-> 0, head |-> 0]
    /\ txn = <<>>
    /\ ret = <<>>
    /\ pre = None
    /\ prior = [undo |-> 0, redo |-> 0]
    /\ last = Call("new", 0)
    /\ panicked = FALSE
    /\ text_objects = with_defaults

\* the host calls the method with a position and an object
Find(method) ==
    /\ pc = "ready"
    /\ \E pos \in 0..Len(content), text_obj \in TextObjects :
          /\ ret' = registry_find(text_objects, method, content, pos, text_obj)
          /\ txn' = Request(method, pos, text_obj)
    /\ last' = Call(method, 0)
    /\ pc' = "found"
    /\ UNCHANGED <<content, modified, undo_stack, redo_stack, selection, pre,
                   prior, panicked, text_objects>>

FindAt == Find("find_at")

FindNextObject == Find("find_next")

FindPrevObject == Find("find_prev")

\* text_objects::find_matching_bracket on the rope, as move_matching_bracket
\* calls it
MatchBracket ==
    /\ pc = "ready"
    /\ \E pos \in 0..Len(content) :
          /\ ret' = find_matching_bracket(content, pos)
          /\ txn' = [op |-> "find_matching_bracket", pos |-> pos]
    /\ last' = Call("find_matching_bracket", 0)
    /\ pc' = "found"
    /\ UNCHANGED <<content, modified, undo_stack, redo_stack, selection, pre,
                   prior, panicked, text_objects>>

NextFind == FindAt \/ FindNextObject \/ FindPrevObject \/ MatchBracket

SpecFind == InitFind /\ [][NextFind]_vars

----------------------------------------------------------------------------
(* Properties of core's Buffer::apply and History *)

\* the characters of c in [s, e)
Chars(c, s, e) == SubSeq(c, s + 1, e)

AllNoops(edits) ==
    \A i \in 1..Len(edits) : edits[i].start = edits[i].end /\ edits[i].text = <<>>

Orderings(n) ==
    {f \in [1..n -> 1..n] : \A i, j \in 1..n : f[i] = f[j] => i = j}

Reordered(edits, f) == [i \in 1..Len(edits) |-> edits[f[i]]]

RECURSIVE TextsAt(_, _, _)
\* the texts of the edits k.. of the list that apply to the empty range at p
TextsAt(edits, p, k) ==
    IF k > Len(edits) THEN <<>>
    ELSE (IF edits[k].start = p /\ edits[k].end = p THEN edits[k].text ELSE <<>>)
             \o TextsAt(edits, p, k + 1)

RECURSIVE Rewritten(_, _, _)
\* the buffer from offset p on, every range [start, end) of an edit replaced
\* by the edit's text
Rewritten(doc, edits, p) ==
    LET here == {k \in 1..Len(edits) : edits[k].start = p /\ edits[k].end > p}
    IN  TextsAt(edits, p, 1) \o
        (IF here # {}
         THEN LET k == CHOOSE k \in here : TRUE
              IN  edits[k].text \o Rewritten(doc, edits, edits[k].end)
         ELSE IF p < Len(doc)
              THEN <<doc[p + 1]>> \o Rewritten(doc, edits, p + 1)
              ELSE <<>>)

\* C1: a transaction of pairwise non-overlapping edits applied and recorded
\* with the removed texts, then undone by applying what undo() returns,
\* leaves the buffer as it was before the transaction.
Invertibility ==
    (last.op = "apply_inverse" /\ pre.some) => (~panicked /\ content = pre.val)

\* C2 as stated: [delete(5,8), insert(0,"X")] on "0123456789" gives
\* "X01234789".
MultiEditAsStated ==
    (pc = "applied" /\ pre = Some(Digits)
        /\ txn = <<Edit_delete(5, 8), Edit_insert(0, <<"X">>)>>)
    => content = <<"X", "0", "1", "2", "3", "4", "7", "8", "9">>

\* C2: [delete(5,8), insert(0,"X")] applied as one transaction to
\* "0123456789" gives "X0123489": the three characters at the original
\* offsets 5, 6, 7 are removed and "X" is put at the original offset 0.
MultiEditOffsetIndependence ==
    (pc = "applied" /\ pre = Some(Digits)
        /\ txn = <<Edit_delete(5, 8), Edit_insert(0, <<"X">>)>>)
    => /\ ~panicked
       /\ content = <<"X", "0", "1", "2", "3", "4", "8", "9">>
       /\ ret = <<Chars(Digits, 5, 8), <<>> >>

MultiEditApplied ==
    /\ pc = "applied" /\ pre = Some(Digits) /\ ~panicked
    /\ txn = <<Edit_delete(5, 8), Edit_insert(0, <<"X">>)>>
    /\ Len(content) = Len(Digits) - 2

\* C3: for pairwise non-overlapping edits apply produces the buffer in which
\* every original range is replaced by its edit's text, whatever the order
\* in which the edits are listed.
ApplyReplacesRanges ==
    (pc = "applied" /\ pre.some /\ NonOverlapping(txn))
    => /\ ~panicked
       /\ content = Rewritten(pre.val, txn, 0)
       /\ \A f \in Orderings(Len(txn)) :
              apply(pre.val, Reordered(txn, f)).content = content

\* C4: apply returns one entry per edit, in input order, entry i being the
\* pre-transaction content of [edits[i].start, edits[i].end).
ApplyReturnsRemoved ==
    (pc = "applied" /\ pre.some /\ NonOverlapping(txn))
    => /\ Len(ret) = Len(txn)
       /\ \A i \in 1..Len(txn) :
              ret[i] = Chars(pre.val, txn[i].start, txn[i].end)

\* C5: recording an empty or all-noop edit list never pushes to the undo
\* stack, so can_undo() keeps its value (false from an empty history).
NoopNeverRecorded ==
    [][(pc = "applied" /\ AllNoops(txn))
          => (undo_stack' = undo_stack /\ can_undo(Hist)' = can_undo(Hist))]_vars

NoopRecordSeen ==
    /\ last.op = "record" /\ last.n = MaxEdits
    /\ undo_stack = <<>> /\ prior.undo = 0

\* C6: recording a transaction with at least one non-noop edit leaves the
\* redo stack empty: can_redo() is false and the next redo() returns nothing.
RedoInvalidation ==
    [][(pc = "applied" /\ ~AllNoops(txn))
          => (~can_redo(Hist)' /\ redo(Hist)'.ret = None)]_vars

RedoInvalidated ==
    /\ last.op = "record" /\ prior.redo > 0
    /\ Len(undo_stack) = prior.undo + 1
    /\ redo_stack = <<>>

\* C7: after every call to record, also one that pushes nothing, can_redo()
\* is false.
RecordAlwaysClearsRedo ==
    [][pc = "applied" => ~can_redo(Hist)']_vars

\* the inverse of one recorded edit, offsets counted in characters
InverseOf(edit, removed) ==
    IF edit.start = edit.end /\ edit.text # <<>>
    THEN [start |-> edit.start, end |-> edit.start + Len(edit.text), text |-> <<>>]
    ELSE IF edit.start # edit.end /\ edit.text = <<>>
    THEN [start |-> edit.start, end |-> edit.start, text |-> removed]
    ELSE IF edit.start # edit.end
    THEN [start |-> edit.start, end |-> edit.start + Len(edit.text), text |-> removed]
    ELSE [start |-> edit.start, end |-> edit.start, text |-> <<>>]

\* C10: undo() returns one inverse per edit of the popped transaction, in
\* the reverse of the recorded order, each built from the edit and its
\* captured removed text.
UndoReturnsInverse ==
    (last.op = "undo" /\ ret.some)
    => LET popped == redo_stack[Len(redo_stack)]
           n == Len(popped.edits)
       IN  /\ Len(ret.val) = n
           /\ \A k \in 1..n :
                  ret.val[k] = InverseOf(popped.edits[n + 1 - k],
                                         popped.deleted_texts[n + 1 - k])

----------------------------------------------------------------------------
(* Properties of gauchito-core's History and of the undo and redo           *)
(* operations *)

\* C8: undo followed by redo, repeated with no edit in between, leaves the
\* buffer content and the selection (anchor and head) as they were before
\* the first undo.
RedoFidelity ==
    /\ (last.op \in {"undo", "redo"} /\ pre.some) => ~panicked
    /\ (last.op = "redo" /\ pre.some)
          => (content = pre.val.content /\ selection = pre.val.selection)

\* C9: for a transaction on the undo stack that removes text, undo(); redo();
\* undo() returns from the second undo the inverse edits of the first.
RedoKeepsRemovedText ==
    (pc = "editing" /\ ~panicked /\ undo_stack # <<>>
        /\ \E i \in 1..Len(undo_stack[Len(undo_stack)]) :
               LET e == undo_stack[Len(undo_stack)][i].edit
               IN  e.start # e.end)
    => LET first == G_undo(Hist)
           again == G_undo(G_redo(first.h).h)
       IN  again.ret = first.ret

\* C11: undo() on an empty undo stack and redo() on an empty redo stack
\* return no edits and leave both stacks as they are, in core's History and
\* in gauchito-core's; the undo and redo operations executed in that
\* situation leave the buffer and the selection unchanged and return
\* Continue.
EmptyStackNoop ==
    [][/\ undo_stack = <<>>
          => /\ undo(Hist) = [h |-> Hist, ret |-> None]
             /\ G_undo(Hist) = [h |-> Hist, ret |-> None]
             /\ ~panicked => Undo(Ctx) = Ctx
             /\ last'.op = "undo"
                  => /\ content' = content /\ selection' = selection
                     /\ undo_stack' = undo_stack /\ redo_stack' = redo_stack
                     /\ ret' = Continue
       /\ redo_stack = <<>>
          => /\ redo(Hist) = [h |-> Hist, ret |-> None]
             /\ G_redo(Hist) = [h |-> Hist, ret |-> None]
             /\ ~panicked => Redo(Ctx) = Ctx
             /\ last'.op = "redo"
                  => /\ content' = content /\ selection' = selection
                     /\ undo_stack' = undo_stack /\ redo_stack' = redo_stack
                     /\ ret' = Continue]_vars

\* an undo has been executed on an empty undo stack, after an operation
\* that recorded nothing, in a context with text and a selection
EmptyStackUndoRedoSeen ==
    /\ pc = "undone" /\ last.op = "undo" /\ prior.undo = 0
    /\ ret = Continue /\ ~panicked
    /\ content # <<>> /\ selection.anchor # selection.head

----------------------------------------------------------------------------
(* Properties of the operations *)

\* the edits of a recorded transaction
EditsOf(transaction) == [i \in 1..Len(transaction) |-> transaction[i].edit]

\* C12: one execute() pushes at most one entry on the undo stack, from any
\* context, and the whole change an operation makes to the buffer is the
\* one transaction it recorded: its edits are never spread over several
\* undo steps.
OneTransactionPerOperation ==
    /\ (pc = "executed" /\ ~panicked
           /\ txn.kind \in {"InsertChar", "IndentSelection"})
          => \A op \in OpInputs :
                 Len(execute(op, Ctx).undo_stack) <= Len(undo_stack) + 1
    /\ (pc = "executed" /\ ~panicked /\ txn.kind \notin {"Undo", "Redo"})
          => /\ Len(undo_stack) <= prior.undo + 1
             /\ Len(undo_stack) = prior.undo => content = pre.val.content
             /\ Len(undo_stack) = prior.undo + 1
                  => G_apply(pre.val.content,
                             EditsOf(undo_stack[Len(undo_stack)])).content = content

\* indent_selection over two lines has recorded its two edits as one
\* transaction
TwoEditsOneTransaction ==
    /\ pc = "executed" /\ ~panicked /\ txn.kind = "IndentSelection"
    /\ Len(undo_stack) = 1 /\ Len(undo_stack[1]) = 2

\* the operations C13 names
MutatingKinds ==
    {"InsertChar", "InsertString", "DeleteChar", "DeleteWord",
     "DeleteWordBackward", "DeleteLine", "DeleteToLineStart", "DeleteToLineEnd",
     "Cut", "Paste", "UppercaseSelection", "LowercaseSelection",
     "ToggleCaseSelection", "IndentSelection", "UnindentSelection",
     "DuplicateLine", "MoveLineUp", "MoveLineDown", "Replace", "ReplaceAll"}

\* C13: a mutating operation followed by undo leaves the buffer content as
\* it was before the operation.
OperationThenUndoRestores ==
    (pc = "undone" /\ txn.kind \in MutatingKinds /\ prior.undo = 1)
    => (~panicked /\ content = pre.val.content)

RECURSIVE ShiftBefore(_, _, _)
\* the growth of the buffer by the edits j.. of the list that lie before the
\* offset p
ShiftBefore(edits, p, j) ==
    IF j > Len(edits) THEN 0
    ELSE (IF edits[j].start < p
          THEN Len(edits[j].text) - (edits[j].end - edits[j].start) ELSE 0)
         + ShiftBefore(edits, p, j + 1)

\* where the cursor belongs after the transaction, in the coordinates of the
\* buffer after it: just after the text the last edit inserted, or at the
\* start of the range it removed
CursorAfter(edits) ==
    LET e == edits[Len(edits)]
    IN  e.start + ShiftBefore(edits, e.start, 1) + Len(e.text)

\* C14: after a mutating operation the selection is a cursor just after the
\* inserted text (insert, replace) or at the start of the removed range
\* (delete), in the coordinates of the buffer after the transaction, also
\* for a transaction of several edits.
CursorAfterOperation ==
    (pc = "executed" /\ ~panicked /\ txn.kind \notin {"Undo", "Redo"}
        /\ Len(undo_stack) = prior.undo + 1)
    => /\ selection.anchor = selection.head
       /\ selection.head = CursorAfter(EditsOf(undo_stack[Len(undo_stack)]))

\* C15: range() is (min(anchor, head), max(anchor, head)) for the selection
\* any sequence of cursor_to and set_range calls has left; set_range stores
\* anchor and head as given, on either side of each other; is_cursor() is
\* anchor = head, and holds after every cursor_to(pos), which sets both to
\* pos.
SelectionContract ==
    /\ range(selection) =
          <<IF selection.anchor <= selection.head THEN selection.anchor
            ELSE selection.head,
            IF selection.anchor <= selection.head THEN selection.head
            ELSE selection.anchor>>
    /\ range(selection)[1] <= range(selection)[2]
    /\ is_cursor(selection) <=> selection.anchor = selection.head
    /\ \A a, h \in 0..(MaxOpLen + 1) :
          /\ set_range(selection, a, h) = [anchor |-> a, head |-> h]
          /\ range(set_range(selection, a, h)) = <<Min(a, h), a + h - Min(a, h)>>
          /\ cursor_to(selection, h) = [anchor |-> h, head |-> h]
          /\ is_cursor(cursor_to(selection, h))
          /\ range(cursor_to(set_range(selection, a, h), a)) = <<a, a>>

\* a select operation has stored a head before the anchor
BackwardSelectionSeen ==
    /\ pc = "executed" /\ ~panicked /\ txn.kind = "SelectLineStart"
    /\ pre.val.selection.anchor = pre.val.selection.head
    /\ selection.head < selection.anchor
    /\ range(selection) = <<selection.head, selection.anchor>>

\* the pattern occurs in the text at the character offset j
OccursAt(text, pattern, j) ==
    j + Len(pattern) <= Len(text) /\ SubSeq(text, j + 1, j + Len(pattern)) = pattern

\* the lookup of the operation fails in the context
LookupFails(op, before) ==
    LET c == before.content
        sel == before.selection
        lo == IF sel.anchor <= sel.head THEN sel.anchor ELSE sel.head
        hi == IF sel.anchor <= sel.head THEN sel.head ELSE sel.anchor
    IN  CASE op.kind = "FindNext" ->
               ~\E j \in sel.head..Len(c) : OccursAt(c, op.args[1], j)
          [] op.kind = "FindPrevious" ->
               ~\E j \in 0..sel.head :
                    j + Len(op.args[1]) <= sel.head /\ OccursAt(c, op.args[1], j)
          [] op.kind = "MoveMatchingBracket" ->
               ~find_matching_bracket(c, sel.head).some
          [] op.kind = "Replace" ->
               hi > Len(c) \/ SubSeq(c, lo + 1, hi) # op.args[1]
          [] OTHER -> FALSE

\* C16: an operation whose lookup fails (find_next, find_previous,
\* move_matching_bracket, replace) leaves the buffer, the selection and both
\* history stacks unchanged and returns Continue.
FailedLookupLeavesContext ==
    (pc = "executed" /\ LookupFails(txn, pre.val))
    => /\ ~panicked /\ ret = Continue
       /\ content = pre.val.content /\ selection = pre.val.selection
       /\ Len(undo_stack) = prior.undo /\ Len(redo_stack) = prior.redo

----------------------------------------------------------------------------
(* Properties of the operation registry *)

\* C17: create with a name that is not registered returns the unknown
\* operation error and no operation, for every parameter string, and
\* has_operation is false for exactly the names create reports as unknown.
UnknownOperationError ==
    pc = "created"
    => /\ txn.name \notin factories
            => ret = [ok |-> FALSE, err |-> <<"Unknown operation: ", txn.name>>]
       /\ ~has_operation(txn.name)
            <=> (~ret.ok /\ ret.err[1] = "Unknown operation: ")

BogusRejected ==
    /\ pc = "created" /\ txn.name = "bogus" /\ txn.params = <<>>
    /\ ~ret.ok /\ ~has_operation("bogus")

\* C18: create("insert_char", p) is an error, and no operation, unless p is
\* exactly one character: the empty parameter and a parameter of two or more
\* characters are rejected.
InsertCharOneCharacter ==
    (pc = "created" /\ txn.name = "insert_char")
    => /\ ret.ok <=> Len(txn.params) = 1
       /\ ret.ok => ret.op = [kind |-> "InsertChar", args |-> <<txn.params[1]>>]
       /\ ~ret.ok => ret.err = <<"insert_char requires exactly one character">>

InsertCharTwoRejected ==
    /\ pc = "created" /\ txn.name = "insert_char"
    /\ txn.params = <<"a", "b">> /\ ~ret.ok

\* a parameter with a character that is neither a digit nor a sign
NotANumber(p) ==
    \E i \in 1..Len(p) :
        p[i] \notin {"0", "1", "2", "3", "4", "5", "6", "7", "8", "9", "+"}

\* the parameter has no " with " between a pattern and a replacement
NoWith(p) ==
    ~\E j \in 0..Len(p) :
         j + 6 <= Len(p) /\ SubSeq(p, j + 1, j + 6) = <<" ", "w", "i", "t", "h", " ">>

\* the parameter of the command does not parse
ParseFails(command, p) ==
    CASE command \in {"insert_spaces", "jump_to_line", "jump_to_character"} ->
             NotANumber(p)
      [] command \in {"replace", "replace_all"} -> p # <<>> /\ NoWith(p)
      [] command = ":" ->
             /\ p \notin {<<>>, <<"q">>, <<"w">>, <<"w", "q">>}
             /\ ~(Len(p) >= 2 /\ p[1] = "w" /\ p[2] = " ")
      [] OTHER -> FALSE

\* C19: for a command whose parameter has to be parsed, a parameter that
\* does not parse makes create return an error and no operation, so nothing
\* is executed.
ParseFailureIsError ==
    (pc = "created" /\ ParseFails(txn.name, txn.params)) => ~ret.ok

\* the long form of every alias
LongForm ==
    ("h" :> "move_left") @@ ("j" :> "move_down") @@ ("k" :> "move_up") @@
    ("l" :> "move_right") @@ ("w" :> "move_word_forward") @@
    ("b" :> "move_word_backward") @@ ("W" :> "move_big_word_forward") @@
    ("B" :> "move_big_word_backward") @@ ("0" :> "move_line_start") @@
    ("$" :> "move_line_end") @@ ("gg" :> "move_document_start") @@
    ("G" :> "move_document_end") @@ ("x" :> "delete_char") @@
    ("X" :> "backspace") @@ ("dd" :> "delete_line") @@ ("yy" :> "copy") @@
    ("p" :> "paste") @@ ("u" :> "undo") @@ ("r" :> "redo") @@
    ("o" :> "insert_line_below") @@ ("O" :> "insert_line_above")

\* C20: create(alias, param) and create(long name, param) succeed or fail
\* alike, the operations report the same name(), and executed on the same
\* context they leave the same buffer, selection and history and return the
\* same result.
AliasIsLongForm ==
    txn.name \in DOMAIN LongForm
    => LET short == create(txn.name, txn.params)
           long == create(LongForm[txn.name], txn.params)
       IN  /\ pc = "created" => ret = short
           /\ short.ok = long.ok
           /\ short.ok
                => /\ name(short.op) = name(long.op)
                   /\ execute(short.op, Ctx) = execute(long.op, Ctx)
                   /\ result(short.op) = result(long.op)
           /\ ~short.ok => short.err = long.err

\* the alias p has pasted its parameter
AliasPasteExecuted ==
    /\ pc = "executed" /\ ~panicked /\ txn.name = "p"
    /\ txn.params = <<"a", "b">> /\ last.op = "paste"
    /\ Len(content) = Len(pre.val.content) + 2

----------------------------------------------------------------------------
(* Properties of the text object registry *)

\* the indices (from 1) of the registered finders that list the kind
Listing(kind) ==
    {i \in 1..Len(text_objects.finders) :
         kind \in supported_kinds(text_objects.finders[i])}

\* the largest member of a non-empty set of numbers
Largest(S) == CHOOSE i \in S : \A k \in S : k <= i

\* the smallest member of a non-empty set of numbers
Smallest(S) == CHOOSE i \in S : \A k \in S : i <= k

\* C21: after any sequence of register_finder calls, the finder used for a
\* kind is the last registered finder that lists the kind; a kind a later
\* finder does not list keeps resolving through the earlier finder that
\* lists it, and a kind no finder lists has no finder.
LastFinderShadows ==
    /\ \A text_obj \in TextObjects :
          LET listing == Listing(text_obj.kind)
          IN  IF listing = {}
              THEN /\ find_capable_finder(text_objects, text_obj) = None
                   /\ text_obj.kind \notin DOMAIN text_objects.capability_cache
              ELSE /\ find_capable_finder(text_objects, text_obj)
                        = Some(text_objects.finders[Largest(listing)])
                   /\ text_objects.capability_cache[text_obj.kind]
                        = Largest(listing) - 1
    /\ pc = "resolved"
          => LET listing == Listing(txn.text_obj.kind)
             IN  ret = IF listing = {} THEN None
                       ELSE finder_find(text_objects.finders[Largest(listing)],
                                        txn.op, content, txn.pos, txn.text_obj)

\* a Word resolved by the caller's finder registered after the basic finder,
\* while Line still resolves through the basic finder and Function through
\* the tree-sitter finder registered last
ShadowedWordResolved ==
    /\ pc = "resolved" /\ text_objects.finders = <<"Basic", "Custom", "TreeSitter">>
    /\ txn.op = "find_at" /\ txn.text_obj.kind = "Word" /\ txn.pos = 0
    /\ content = <<"a">>
    /\ ret = Some(TextRange(0, 0))
    /\ text_objects.capability_cache["Line"] = 0
    /\ text_objects.capability_cache["Function"] = 2

\* the kinds the default registry has no finder for
UnregisteredKinds ==
    {"Grapheme", "Function", "Class", "Statement", "Parameter", "Comment",
     "String", "Pattern(p)"}

\* C22: with the default registry find_at, find_next and find_prev return
\* nothing at every position for the kinds without a finder, supports(kind)
\* is false for exactly these kinds, and a registry with the tree-sitter
\* finder registered returns nothing for the syntax-aware kinds.
UnsupportedKindYieldsNothing ==
    /\ \A kind \in TextObjectKinds :
          ~supports(text_objects, kind) <=> kind \in UnregisteredKinds
    /\ (pc = "found" /\ txn.op \in Methods
           /\ txn.text_obj.kind \in UnregisteredKinds)
          => /\ ret = None
             /\ registry_find(register_finder(text_objects, "TreeSitter"),
                              txn.op, content, txn.pos, txn.text_obj) = None

FunctionNotResolved ==
    /\ pc = "found" /\ txn.op = "find_next" /\ txn.pos = 0
    /\ txn.text_obj = TextObject("Function", "Around")
    /\ content = <<"(", "a", ")">> /\ ret = None

----------------------------------------------------------------------------
(* Properties of the basic finder *)

\* find_at has been called for the kind at a character of the buffer
FoundAt(kinds) ==
    /\ pc = "found" /\ txn.op = "find_at" /\ txn.text_obj.kind \in kinds
    /\ txn.pos < Len(content)

\* the characters s..e-1 are alphanumeric and no neighbour is
MaximalWord(c, s, e) ==
    /\ s < e
    /\ \A i \in s..(e - 1) : is_alphanumeric(c[i + 1])
    /\ s > 0 => ~is_alphanumeric(c[s])
    /\ e < Len(c) => ~is_alphanumeric(c[e + 1])

\* C23: a Word resolved by find_at is the maximal run of alphanumeric
\* characters around pos, without whitespace or punctuation; at a position
\* that is not alphanumeric there is no object (no range or an empty one).
WordIsMaximalRun ==
    FoundAt({"Word"})
    => IF is_alphanumeric(content[txn.pos + 1])
       THEN /\ ret.some
            /\ ret.val.start <= txn.pos /\ txn.pos < ret.val.end
            /\ MaximalWord(content, ret.val.start, ret.val.end)
       ELSE ~ret.some \/ ret.val.start = ret.val.end

\* the delimiters of a bracket kind
Open(kind) ==
    CASE kind = "Parentheses" -> "(" [] kind = "Brackets" -> "["
      [] kind = "Braces" -> "{"
Close(kind) ==
    CASE kind = "Parentheses" -> ")" [] kind = "Brackets" -> "]"
      [] kind = "Braces" -> "}"

BracketKinds == {"Parentheses", "Brackets", "Braces"}

\* how often ch occurs at the offsets lo..hi-1
Count(c, ch, lo, hi) == Cardinality({i \in lo..(hi - 1) : c[i + 1] = ch})

\* o and cl are the offsets of an open delimiter and of the close delimiter
\* that balances it
IsPair(c, o, cl, kind) ==
    /\ o < cl /\ c[o + 1] = Open(kind) /\ c[cl + 1] = Close(kind)
    /\ Count(c, Open(kind), o + 1, cl) = Count(c, Close(kind), o + 1, cl)
    /\ \A k \in (o + 1)..cl :
          Count(c, Close(kind), o + 1, k) <= Count(c, Open(kind), o + 1, k)

\* the pairs with pos on the open delimiter or strictly between the two
Enclosing(c, pos, kind) ==
    {pair \in (0..(Len(c) - 1)) \X (0..(Len(c) - 1)) :
         /\ IsPair(c, pair[1], pair[2], kind)
         /\ pair[1] <= pos /\ pos < pair[2]}

\* the innermost of a non-empty set of nested pairs
Innermost(pairs) == CHOOSE pair \in pairs : \A other \in pairs : other[1] <= pair[1]

\* C24: in Around mode, find_at at a position on the open delimiter of a
\* balanced pair or strictly between its delimiters returns the range from
\* the open through the close delimiter of the innermost such pair.
AroundIsInnermostPair ==
    (FoundAt(BracketKinds) /\ txn.text_obj.selection = "Around"
        /\ Enclosing(content, txn.pos, txn.text_obj.kind) # {})
    => LET pair == Innermost(Enclosing(content, txn.pos, txn.text_obj.kind))
       IN  ret = Some(TextRange(pair[1], pair[2] + 1))

\* in "(a(b)c)" Around-Parentheses at 3 is (2,5)
InnermostExampleResolved ==
    /\ FoundAt({"Parentheses"}) /\ txn.text_obj.selection = "Around"
    /\ content = <<"(", "a", "(", "b", ")", "c", ")">> /\ txn.pos = 3
    /\ ret = Some(TextRange(2, 5))

\* C25: in Inner mode, for the pair with the open delimiter at o and the
\* close delimiter at c, find_at returns (o+1, c) when the pair has content
\* and the empty range at o+1 when it has none.
InnerIsBetweenDelimiters ==
    (FoundAt(BracketKinds) /\ txn.text_obj.selection = "Inner"
        /\ Enclosing(content, txn.pos, txn.text_obj.kind) # {})
    => LET pair == Innermost(Enclosing(content, txn.pos, txn.text_obj.kind))
       IN  ret = Some(TextRange(pair[1] + 1,
                                IF pair[2] = pair[1] + 1 THEN pair[1] + 1
                                ELSE pair[2]))

\* the open delimiters at or before pos that no close delimiter at or before
\* pos balances
UnmatchedOpens(c, pos, kind) ==
    {o \in 0..pos :
         /\ c[o + 1] = Open(kind)
         /\ ~\E cl \in (o + 1)..pos : IsPair(c, o, cl, kind)}

\* C26: bracket find_at returns nothing when no unmatched open delimiter of
\* the kind lies at or before pos, or when the nearest one has no matching
\* close delimiter later in the buffer; a range it returns is always that of
\* a balanced pair.
UnbalancedIsNotFound ==
    FoundAt(BracketKinds)
    => LET kind == txn.text_obj.kind
           opens == UnmatchedOpens(content, txn.pos, kind)
       IN  /\ opens = {} => ret = None
           /\ (opens # {}
                 /\ ~\E cl \in 0..(Len(content) - 1) :
                        IsPair(content, Largest(opens), cl, kind))
                => ret = None
           /\ ret.some
                => \E o, cl \in 0..(Len(content) - 1) :
                       /\ IsPair(content, o, cl, kind)
                       /\ ret.val \in {TextRange(o, cl + 1), TextRange(o + 1, cl),
                                       TextRange(o, o)}

\* an open parenthesis without its close: nothing is found
UnclosedNotFound ==
    /\ FoundAt({"Parentheses"}) /\ content = <<"(", "(", ")">> /\ txn.pos = 0
    /\ txn.text_obj.selection = "Around" /\ ret = None

\* the lines that start within the range
LinesIn(c, r) ==
    {l \in 0..(len_lines(c) - 1) :
         r.start <= line_to_char(c, l) /\ line_to_char(c, l) < r.end}

\* C27: a Paragraph range returned by find_at is a maximal run of non-blank
\* lines: no line in it is made only of whitespace, and the lines next to it
\* are blank or missing.
ParagraphIsMaximalRun ==
    (FoundAt({"Paragraph"}) /\ ret.some)
    => LET lines == LinesIn(content, ret.val)
       IN  /\ lines # {}
           /\ \A l \in lines : ~blank_line(content, l)
           /\ Smallest(lines) > 0 => blank_line(content, Smallest(lines) - 1)
           /\ Largest(lines) + 1 < len_lines(content)
                => blank_line(content, Largest(lines) + 1)

\* where the line of the character at pos starts
LineStartOf(c, pos) ==
    Largest({s \in 0..pos : s = 0 \/ c[s] = "\n"})

\* where the next line starts, or the end of the buffer on the final line
NextLineStartOf(c, pos) ==
    LET breaks == {e \in (pos + 1)..Len(c) : c[e] = "\n"}
    IN  IF breaks = {} THEN Len(c) ELSE Smallest(breaks)

KindOf(ch) ==
    CASE ch \in {"(", ")"} -> "Parentheses" [] ch \in {"[", "]"} -> "Brackets"
      [] ch \in {"{", "}"} -> "Braces"

\* the counter after the delimiters between pos and j, seeded at 1: forward
\* from an open delimiter, backward from a close delimiter
Counter(c, pos, j) ==
    LET kind == KindOf(c[pos + 1])
    IN  IF j > pos
        THEN 1 + Count(c, Open(kind), pos + 1, j + 1)
               - Count(c, Close(kind), pos + 1, j + 1)
        ELSE 1 + Count(c, Close(kind), j, pos) - Count(c, Open(kind), j, pos)

\* C29: find_matching_bracket(pos) walks forward from an open bracket and
\* backward from a close bracket with a counter seeded at 1 over the
\* delimiters of that bracket's type, and returns the first position where
\* the counter is 0; there is no match when pos is not on a bracket, is at or
\* past the end of the buffer, or the counter never reaches 0.
MatchingBracketByCounter ==
    (pc = "found" /\ txn.op = "find_matching_bracket")
    => LET c == content
           pos == txn.pos
       IN  IF pos >= Len(c) \/ c[pos + 1] \notin {"(", ")", "[", "]", "{", "}"}
           THEN ret = None
           ELSE LET forward == c[pos + 1] \in {"(", "[", "{"}
                    walked == IF forward THEN (pos + 1)..(Len(c) - 1)
                              ELSE 0..(pos - 1)
                    zeros == {j \in walked : Counter(c, pos, j) = 0}
                IN  ret = IF zeros = {} THEN None
                          ELSE IF forward THEN Some(Smallest(zeros))
                          ELSE Some(Largest(zeros))

\* the match of a bracket across delimiters of another type
BracketMatchedAcrossTypes ==
    /\ pc = "found" /\ txn.op = "find_matching_bracket"
    /\ content = <<"[", "(", "]", ")">> /\ txn.pos = 3 /\ ret = Some(1)

\* C30: find_next(pos) returns the range find_at gives at the smallest probed
\* position after pos whose range starts strictly after pos; find_prev(pos)
\* the range find_at gives at the largest probed position before pos whose
\* range ends at or before pos; each returns nothing when no probed position
\* has such a range.
NextAndPrevProbe ==
    (pc = "found" /\ txn.op \in {"find_next", "find_prev"}
        /\ txn.text_obj.kind \in supported_kinds("Basic"))
    => LET c == content
           pos == txn.pos
           at(i) == find_at(c, i, txn.text_obj)
           after == {i \in (pos + 1)..(Len(c) - 1) :
                         at(i).some /\ at(i).val.start > pos}
           before == {i \in 0..(pos - 1) : at(i).some /\ at(i).val.end <= pos}
       IN  IF txn.op = "find_next"
           THEN /\ ret = IF after = {} THEN None ELSE at(Smallest(after))
                /\ ret.some => ret.val.start > pos
           ELSE /\ ret = IF before = {} THEN None ELSE at(Largest(before))
                /\ ret.some => ret.val.end <= pos

\* the next line after the one at pos
NextLineFound ==
    /\ pc = "found" /\ txn.op = "find_next" /\ txn.text_obj.kind = "Line"
    /\ content = <<"a", "\n", "b", "\n", "\n", "c">> /\ txn.pos = 0
    /\ ret = Some(TextRange(2, 4))

----------------------------------------------------------------------------
(* Properties of the movement operations and of the selection.             *)

\* the end of the content of the line of pos: the offset of its line
\* terminator, or the end of the buffer on a final line without one
ContentEndOf(c, pos) ==
    Smallest({j \in pos..Len(c) : j = Len(c) \/ c[j + 1] = "\n"})

\* C31: move_line_end places the cursor at the end of the content of the
\* current line: immediately before the line terminator, and at the end of
\* the buffer when the current line is the final line without a terminator.
LineEndIsContentEnd ==
    (pc = "executed" /\ ~panicked /\ txn.kind = "MoveLineEnd")
        => selection = Selection(ContentEndOf(content, pre.val.selection.head),
                                 ContentEndOf(content, pre.val.selection.head))

\* C32: the selection stays inside the buffer: from a context whose anchor
\* and head are at most the length of the buffer, after every operation that
\* returned, anchor <= length and head <= length.
SelectionInsideBuffer ==
    ~panicked => /\ selection.anchor <= Len(content)
                 /\ selection.head <= Len(content)

\* C33: no operation executed through the dispatch layer records an empty
\* or all-noop transaction: an operation that computed only noop edits
\* leaves both stacks as they were, so can_undo() stays false on a fresh
\* context.
NoNoopTransactionRecorded ==
    (pc = "executed" /\ ~panicked /\ txn.kind \notin {"Undo", "Redo"})
        => \A i \in 1..Len(undo_stack) : ~AllNoops(EditsOf(undo_stack[i]))

----------------------------------------------------------------------------
(* Properties of the two stacks of core's History.                         *)

\* the last member of a non-empty stack, and the stack without it
Top(stack) == stack[Len(stack)]
Below(stack) == SubSeq(stack, 1, Len(stack) - 1)

\* C34: undo() and redo() only move transactions between the two stacks, in
\* LIFO order: a successful undo moves the top of the undo stack, unmodified,
\* to the top of the redo stack and returns the inverse of that transaction;
\* a successful redo moves the top of the redo stack, unmodified, back to
\* the top of the undo stack and returns its edits; the number of stored
\* transactions does not change.
UndoRedoMoveLifo ==
    [][/\ (pc = "idle" /\ pc' = "undone")
            => /\ undo_stack' = Below(undo_stack)
               /\ redo_stack' = Append(redo_stack, Top(undo_stack))
               /\ ret' = Some(create_inverse_edits(Top(undo_stack)))
               /\ Len(undo_stack') + Len(redo_stack')
                      = Len(undo_stack) + Len(redo_stack)
       /\ (pc = "idle" /\ pc' = "redone")
            => /\ redo_stack' = Below(redo_stack)
               /\ undo_stack' = Append(undo_stack, Top(redo_stack))
               /\ ret' = Some(Top(redo_stack).edits)
               /\ Len(undo_stack') + Len(redo_stack')
                      = Len(undo_stack) + Len(redo_stack)
       /\ (pc = "idle" /\ pc' = "idle" /\ last'.op \in {"undo", "redo"})
            => UNCHANGED <<undo_stack, redo_stack>>]_vars

\* the second of two recorded transactions was undone, and redo has moved
\* it back on top of the first
SecondTransactionRedone ==
    /\ pc = "redone" /\ last.op = "redo"
    /\ Len(undo_stack) = 2 /\ prior.undo = 1 /\ prior.redo = 1
    /\ undo_stack[1] # undo_stack[2]

----------------------------------------------------------------------------
(* Frame of the operations that only move the cursor or select.            *)

\* the cursor movement operations, the selection operations, the jump
\* operations, the two searches and copy
FrameKinds ==
    {"MoveLeft", "MoveRight", "MoveUp", "MoveDown", "MoveLineStart", "MoveLineEnd",
     "MoveWordForward", "MoveWordBackward", "MoveBigWordForward",
     "MoveBigWordBackward", "MoveDocumentStart", "MoveDocumentEnd",
     "MoveMatchingBracket", "MoveParagraphForward", "MoveParagraphBackward",
     "SelectLeft", "SelectRight", "SelectUp", "SelectDown", "SelectWord",
     "SelectLine", "SelectAll", "SelectLineStart", "SelectLineEnd",
     "ClearSelection", "JumpToLine", "JumpToCharacter",
     "FindNext", "FindPrevious", "Copy"}

\* next differs from ctx in the selection only
OnlySelectionMoved(ctx, next) ==
    /\ next.content = ctx.content
    /\ next.modified = ctx.modified
    /\ next.undo_stack = ctx.undo_stack
    /\ next.redo_stack = ctx.redo_stack

----------------------------------------------------------------------------
(* The plain record(edits) entry point of the histories.                   *)
(* gauchito-core/src/history.rs: History::record stores every edit with an *)
(* empty deleted_text.  ew-core/src/history.rs keeps transactions as lists *)
(* of edits and inverts them with Edit::inverse of ew-core/src/edit.rs.    *)

\* History::record of gauchito-core
G_record(h, edits) ==
    IF edits = <<>> THEN h
    ELSE History(Append(h.undo_stack,
                        [i \in 1..Len(edits) |-> EditWithContext(edits[i], <<>>)]),
                 <<>>)

\* Edit::inverse of ew-core
inverse(edit) ==
    IF edit.start = edit.end
    THEN Edit_delete(edit.start, edit.start + len(edit.text))
    ELSE IF edit.text = <<>>
    THEN Edit_insert(edit.start, <<>>)
    ELSE Edit_replace(edit.start, edit.start + len(edit.text), <<>>)

\* History::record of ew-core
E_record(h, edits) ==
    IF edits = <<>> THEN h
    ELSE History(Append(h.undo_stack, edits), <<>>)

\* History::invert_transaction of ew-core
E_invert_transaction(transaction) ==
    [k \in 1..Len(transaction) |-> inverse(transaction[Len(transaction) + 1 - k])]

\* History::undo of ew-core: [h, ret]
E_undo(h) ==
    IF h.undo_stack = <<>> THEN [h |-> h, ret |-> None]
    ELSE LET transaction == h.undo_stack[Len(h.undo_stack)]
         IN  [h |-> History(SubSeq(h.undo_stack, 1, Len(h.undo_stack) - 1),
                            Append(h.redo_stack, transaction)),
              ret |-> Some(E_invert_transaction(transaction))]

(* A host that edits a buffer and records the edits with record(edits),    *)
(* then undoes: with gauchito-core it applies the edits and the inverse to *)
(* the buffer; ew-core's History is driven on its own, content staying the *)
(* buffer the edits were made for.                                         *)

InitRecord ==
    /\ content \in Texts(MaxLen)
    /\ pc = "ready"
    /\ InitCommon

\* buffer.apply(&edits); history.record(edits);
RecordPlain ==
    /\ pc = "ready"
    /\ \E edits \in EditLists(content) \ {<<>>} :
          LET b == G_apply(content, edits)
              h == G_record(History(undo_stack, redo_stack), edits)
          IN  /\ content' = b.content
              /\ panicked' = b.panicked
              /\ modified' = TRUE
              /\ undo_stack' = h.undo_stack
              /\ redo_stack' = h.redo_stack
              /\ txn' = [lib |-> "gauchito-core", edits |-> edits]
    /\ pre' = Some(Snapshot)
    /\ prior' = StackSizes
    /\ last' = Call("record", 0)
    /\ pc' = "recorded"
    /\ UNCHANGED <<selection, ret, text_objects>>

\* let inverse = history.undo(); buffer.apply(&inverse);
UndoPlain ==
    /\ pc = "recorded" /\ ~panicked /\ txn.lib = "gauchito-core"
    /\ LET r == G_undo(History(undo_stack, redo_stack))
           b == G_apply(content, r.ret.val)
       IN  /\ content' = b.content
           /\ panicked' = b.panicked
           /\ undo_stack' = r.h.undo_stack
           /\ redo_stack' = r.h.redo_stack
           /\ ret' = r.ret
    /\ prior' = StackSizes
    /\ last' = Call("undo", 0)
    /\ pc' = "undone"
    /\ UNCHANGED <<modified, selection, txn, pre, text_objects>>

\* ew-core: history.record(edits);
RecordEw ==
    /\ pc = "ready"
    /\ \E edits \in EditLists(content) \ {<<>>} :
          LET h == E_record(History(undo_stack, redo_stack), edits)
          IN  /\ undo_stack' = h.undo_stack
              /\ redo_stack' = h.redo_stack
              /\ txn' = [lib |-> "ew-core", edits |-> edits]
    /\ pre' = Some(Snapshot)
    /\ prior' = StackSizes
    /\ last' = Call("record", 0)
    /\ pc' = "recorded"
    /\ UNCHANGED <<content, modified, selection, ret, panicked, text_objects>>

\* ew-core: let inverse = history.undo();
UndoEw ==
    /\ pc = "recorded" /\ txn.lib = "ew-core"
    /\ LET r == E_undo(History(undo_stack, redo_stack))
       IN  /\ undo_stack' = r.h.undo_stack
           /\ redo_stack' = r.h.redo_stack
           /\ ret' = r.ret
    /\ prior' = StackSizes
    /\ last' = Call("undo", 0)
    /\ pc' = "undone"
    /\ UNCHANGED <<content, modified, selection, txn, pre, panicked, text_objects>>

NextRecord == RecordPlain \/ UndoPlain \/ RecordEw \/ UndoEw

SpecRecord == InitRecord /\ [][NextRecord]_vars

\* C36: a history that recorded a deletion or a replacement through the
\* plain record(edits) still undoes it exactly: the inverse undo() returns
\* re-inserts the text the edit removed, and applying it restores the buffer
\* as it was before the edit.
PlainRecordUndoRestores ==
    /\ (pc = "undone" /\ ~panicked /\ txn.lib = "gauchito-core")
          => content = pre.val.content
    /\ (pc = "undone" /\ ret.some)
          => \A k \in 1..Len(txn.edits) :
                 LET edit == txn.edits[Len(txn.edits) + 1 - k]
                 IN  edit.start # edit.end
                         => ret.val[k].text
                                = rope_slice(pre.val.content, edit.start, edit.end)

----------------------------------------------------------------------------
(* Further properties of the bracket scans and of find_at.                 *)

\* a fresh context on the buffer c with the cursor at pos
CursorAt(c, pos) == Context(c, FALSE, Selection(pos, pos), <<>>, <<>>, FALSE)

\* C37: the jump to the matching bracket is an involution: when
\* find_matching_bracket(p) returns q, q is on the bracket of the same type
\* and of the opposite direction, find_matching_bracket(q) returns p, and
\* move_matching_bracket executed twice leaves the cursor where it was.
MatchingBracketInvolution ==
    (pc = "found" /\ txn.op = "find_matching_bracket" /\ ret.some)
    => LET p == txn.pos
           q == ret.val
           kind == KindOf(content[p + 1])
           once == MoveMatchingBracket(CursorAt(content, p))
       IN  /\ q \in 0..(Len(content) - 1)
           /\ content[q + 1] = IF content[p + 1] = Open(kind)
                               THEN Close(kind) ELSE Open(kind)
           /\ find_matching_bracket(content, q) = Some(p)
           /\ once.selection = Selection(q, q)
           /\ MoveMatchingBracket(once).selection = Selection(p, p)

\* the outer pair of a nested buffer matched from its open parenthesis
OuterPairMatched ==
    /\ pc = "found" /\ txn.op = "find_matching_bracket"
    /\ content = <<"(", "(", ")", "a", ")">> /\ txn.pos = 0 /\ ret = Some(4)

\* C38: the bracket objects treat both delimiters of a pair alike: for a
\* balanced pair with the open delimiter at o and the close delimiter at c,
\* find_at in Around mode at c returns the range (o, c+1) it returns at o,
\* also when the pair is nested in another pair of the same type.
BothDelimitersAlike ==
    (FoundAt(BracketKinds) /\ txn.text_obj.selection = "Around")
    => \A o \in 0..(Len(content) - 1) :
           IsPair(content, o, txn.pos, txn.text_obj.kind)
               => /\ find_at(content, o, txn.text_obj) = Some(TextRange(o, txn.pos + 1))
                  /\ ret = Some(TextRange(o, txn.pos + 1))

\* C39: every range find_at returns, for every kind, mode, buffer and
\* position, is well formed: start <= end <= the length of the buffer; and
\* a range of a bracket kind in Around mode contains pos, begins with the
\* open delimiter, ends with the close delimiter, and the delimiters of that
\* type between the two are balanced.
RangesWellFormed ==
    (pc = "found" /\ txn.op = "find_at" /\ ret.some)
    => /\ ret.val.start <= ret.val.end
       /\ ret.val.end <= Len(content)
       /\ (txn.text_obj.kind \in BracketKinds /\ txn.text_obj.selection = "Around")
             => /\ ret.val.start <= txn.pos /\ txn.pos < ret.val.end
                /\ IsPair(content, ret.val.start, ret.val.end - 1, txn.text_obj.kind)

\* find_at on the close delimiter of an inner pair has returned the outer pair
OuterPairFromInnerClose ==
    /\ FoundAt({"Parentheses"}) /\ txn.text_obj.selection = "Around"
    /\ content = <<"(", "a", "(", "b", ")", "c", ")">> /\ txn.pos = 4
    /\ ret = Some(TextRange(0, 7))

----------------------------------------------------------------------------
(* The loops of the scans, one iteration at a time.  A scan in progress is *)
(* [loop, pos, count, result]: the loop it is in (0 when it has returned), *)
(* its index variable (pos, current_line or i), its counter, and the value *)
(* it returned.  One iteration is one test of the loop condition with the  *)
(* body that follows it.                                                    *)
(* text_objects.rs: word_start_index .. big_word_end_index, find_matching_ *)
(* bracket, paragraph_start_index, paragraph_end_index; finders/basic.rs:  *)
(* find_next, find_prev, find_bracket_backwards and find_matching_bracket_ *)
(* forward (called for parentheses).                                        *)

Scans ==
    {"word_start_index", "word_end_index", "big_word_start_index",
     "big_word_end_index", "paragraph_start_index", "paragraph_end_index",
     "find_matching_bracket", "find_bracket_backwards",
     "find_matching_bracket_forward", "find_next", "find_prev"}

InLoop(loop, pos, count) == [loop |-> loop, pos |-> pos, count |-> count, result |-> None]
Returned(value) == [loop |-> 0, pos |-> 0, count |-> 0, result |-> Some(value)]

\* the scan from its entry to its first loop: the early returns and the
\* initial values of the loop variables
scan_entry(c, scan, char_idx, text_obj) ==
    CASE scan \in {"word_start_index", "big_word_start_index"} ->
             IF char_idx = 0 THEN Returned(0) ELSE InLoop(1, char_idx, 0)
      [] scan \in {"word_end_index", "big_word_end_index"} ->
             IF char_idx >= Len(c) THEN Returned(Len(c)) ELSE InLoop(1, char_idx, 0)
      [] scan \in {"paragraph_start_index", "paragraph_end_index"} ->
             InLoop(1, char_to_line(c, char_idx), 0)
      [] scan = "find_matching_bracket" ->
             IF char_idx >= Len(c) THEN Returned(None)
             ELSE IF c[char_idx + 1] \in {"(", "[", "{"}
             THEN InLoop(1, char_idx + 1, 1)
             ELSE IF c[char_idx + 1] \in {")", "]", "}"}
             THEN InLoop(1, char_idx - 1, 1)
             ELSE Returned(None)
      [] scan = "find_bracket_backwards" -> InLoop(1, char_idx, 0)
      [] scan = "find_matching_bracket_forward" -> InLoop(1, char_idx + 1, 1)
      [] scan = "find_next" -> InLoop(1, char_idx + 1, 0)
      [] scan = "find_prev" -> InLoop(1, char_idx - 1, 0)

\* an iteration that leaves the loop variables as they are
scan_iteration_stuck(c, scan, char_idx, text_obj, s) == s

\* one iteration of the loop the scan is in
scan_iteration(c, scan, char_idx, text_obj, s) ==
    CASE scan \in {"word_start_index", "big_word_start_index"} ->
             LET kind == IF s.loop = 1 THEN "whitespace"
                         ELSE IF scan = "word_start_index" THEN "word"
                         ELSE "big_word"
             IN  IF s.pos > 0 /\ ~scan_stops(kind, c[s.pos])
                 THEN InLoop(s.loop, s.pos - 1, 0)
                 ELSE IF s.loop = 1 THEN InLoop(2, s.pos, 0)
                 ELSE Returned(s.pos)
      [] scan \in {"word_end_index", "big_word_end_index"} ->
             LET kind == IF s.loop = 1 THEN "whitespace"
                         ELSE IF scan = "word_end_index" THEN "word"
                         ELSE "big_word"
             IN  IF s.pos < Len(c) /\ ~scan_stops(kind, c[s.pos + 1])
                 THEN InLoop(s.loop, s.pos + 1, 0)
                 ELSE IF s.loop = 1 THEN InLoop(2, s.pos, 0)
                 ELSE Returned(s.pos)
      [] scan = "paragraph_start_index" ->
             IF s.pos > 0 /\ ~blank_line(c, s.pos - 1)
             THEN InLoop(1, s.pos - 1, 0)
             ELSE Returned(line_to_char(c, s.pos))
      [] scan = "paragraph_end_index" ->
             IF s.pos + 1 < len_lines(c) /\ ~blank_line(c, s.pos + 1)
             THEN InLoop(1, s.pos + 1, 0)
             ELSE IF s.pos + 1 < len_lines(c)
             THEN Returned(line_to_char(c, s.pos + 1))
             ELSE Returned(Len(c))
      [] scan = "find_matching_bracket" ->
             LET kind == KindOf(c[char_idx + 1])
                 direction == IF c[char_idx + 1] = Open(kind) THEN 1 ELSE -1
             IN  IF s.pos < 0 \/ s.pos >= Len(c) THEN Returned(None)
                 ELSE LET count == IF c[s.pos + 1] = Open(kind)
                                   THEN s.count + direction
                                   ELSE IF c[s.pos + 1] = Close(kind)
                                   THEN s.count - direction
                                   ELSE s.count
                      IN  IF count = 0 THEN Returned(Some(s.pos))
                          ELSE InLoop(1, s.pos + direction, count)
      [] scan = "find_bracket_backwards" ->
             IF s.pos < 0 THEN Returned(None)
             ELSE IF char_at(c, s.pos) = Some(")")
             THEN InLoop(1, s.pos - 1, s.count + 1)
             ELSE IF char_at(c, s.pos) = Some("(")
             THEN IF s.count = 0 THEN Returned(Some(s.pos))
                  ELSE InLoop(1, s.pos - 1, s.count - 1)
             ELSE InLoop(1, s.pos - 1, s.count)
      [] scan = "find_matching_bracket_forward" ->
             IF s.pos >= Len(c) THEN Returned(None)
             ELSE IF char_at(c, s.pos) = Some("(")
             THEN InLoop(1, s.pos + 1, s.count + 1)
             ELSE IF char_at(c, s.pos) = Some(")")
             THEN IF s.count - 1 = 0 THEN Returned(Some(s.pos))
                  ELSE InLoop(1, s.pos + 1, s.count - 1)
             ELSE InLoop(1, s.pos + 1, s.count)
      [] scan = "find_next" ->
             IF s.pos >= Len(c) THEN Returned(None)
             ELSE LET found == find_at(c, s.pos, text_obj)
                  IN  IF found.some /\ found.val.start > char_idx
                      THEN Returned(found)
                      ELSE InLoop(1, s.pos + 1, 0)
      [] scan = "find_prev" ->
             IF s.pos < 0 THEN Returned(None)
             ELSE LET found == find_at(c, s.pos, text_obj)
                  IN  IF found.some /\ found.val.end <= char_idx
                      THEN Returned(found)
                      ELSE InLoop(1, s.pos - 1, 0)

\* what the scan returns, by the functions of the sections above
scan_result(c, scan, char_idx, text_obj) ==
    CASE scan = "word_start_index" -> word_start_index(c, char_idx)
      [] scan = "word_end_index" -> word_end_index(c, char_idx)
      [] scan = "big_word_start_index" -> big_word_start_index(c, char_idx)
      [] scan = "big_word_end_index" -> big_word_end_index(c, char_idx)
      [] scan = "paragraph_start_index" -> paragraph_start_index(c, char_idx)
      [] scan = "paragraph_end_index" -> paragraph_end_index(c, char_idx)
      [] scan = "find_matching_bracket" -> find_matching_bracket(c, char_idx)
      [] scan = "find_bracket_backwards" ->
             find_bracket_backwards(c, char_idx, "(", ")")
      [] scan = "find_matching_bracket_forward" ->
             find_matching_bracket_forward(c, char_idx, "(", ")")
      [] scan = "find_next" -> find_next(c, char_idx, text_obj)
      [] scan = "find_prev" -> find_prev(c, char_idx, text_obj)

(* A host that calls one scan on a buffer; prior counts the iterations.    *)

ScanAlphabet == {"a", " ", "\n", "(", ")"}

\* the objects find_next and find_prev are called for
ScanObjects ==
    {TextObject(kind, "Around") : kind \in {"Word", "Line", "Parentheses"}}

InitScan ==
    /\ content \in TextsOver(ScanAlphabet, MaxObjLen)
    /\ pc = "ready"
    /\ modified = FALSE
    /\ undo_stack = <<>>
    /\ redo_stack = <<>>
    /\ selection = [anchor |-> 0, head |-> 0]
    /\ txn = <<>>
    /\ ret = <<>>
    /\ pre = None
    /\ prior = 0
    /\ last = Call("new", 0)
    /\ panicked = FALSE
    /\ text_objects = with_defaults

\* the call of a scan at a position of the buffer
StartScan ==
    /\ pc = "ready"
    /\ \E scan \in Scans, char_idx \in 0..Len(content), text_obj \in ScanObjects :
          /\ scan \in {"find_next", "find_prev"}
                \/ text_obj = TextObject("Word", "Around")
          /\ txn' = Request(scan, char_idx, text_obj)
          /\ ret' = scan_entry(content, scan, char_idx, text_obj)
          /\ pc' = IF scan_entry(content, scan, char_idx, text_obj).loop = 0
                   THEN "done" ELSE "scanning"
          /\ last' = Call(scan, 0)
    /\ prior' = 0
    /\ UNCHANGED <<content, modified, undo_stack, redo_stack, selection, pre,
                   panicked, text_objects>>

\* one iteration of the loop of the scan
ScanIteration ==
    /\ pc = "scanning"
    /\ LET s == scan_iteration(content, txn.op, txn.pos, txn.text_obj, ret)
       IN  /\ ret' = s
           /\ pc' = IF s.loop = 0 THEN "done" ELSE "scanning"
    /\ prior' = prior + 1
    /\ UNCHANGED <<content, modified, undo_stack, redo_stack, selection, txn, pre,
                   last, panicked, text_objects>>

NextScan == StartScan \/ ScanIteration

\* a loop that is entered runs: the thread executing the scan is scheduled
SpecScan == InitScan /\ [][NextScan]_vars /\ WF_vars(ScanIteration)

====
